---- MODULE Spec2Model ----
(***************************************************************************)
(* Model of the transcript post-processing pipeline of mvp-echo-scribe     *)
(* (frontend/src/utils/post-processing.ts): the paragraph grouper          *)
(* detectParagraphsClient, the rule engine applyTextRules and the          *)
(* orchestrator applyPostProcessing.                                       *)
(*                                                                         *)
(* Conventions.                                                            *)
(*  - A JavaScript string is a sequence of one-character strings.          *)
(*  - A time (seconds, a float in the code) is an integer number of ticks  *)
(*    of 5 ms; the code only subtracts and compares times, and the model   *)
(*    does the same on integers (float rounding is not modelled).          *)
(*  - An absent optional field (undefined) is the value Undefined.         *)
(*  - A call that ends by throwing returns [threw |-> TRUE, ...].          *)
(***************************************************************************)
EXTENDS Integers, Sequences, FiniteSets, TLC

VARIABLES
    \* --- rule engine: one call applyTextRules(text, rules) ---
    text,           \* the text argument
    rules,          \* the rules argument (TextRule[])
    result,         \* what the call returned: [threw, value]
    prevResult,     \* what the previous call returned (text fed back)
    rpc,            \* "ready" before the first call, "done" after a call
    \* --- paragraph grouper: detectParagraphsClient(segments, threshold) ---
    segments,           \* the segments argument (Segment[])
    silenceThreshold,   \* the silenceThreshold argument
    paragraphs,         \* the returned Paragraph[]
    prevThreshold,      \* the threshold of the call before (history)
    prevParagraphs,     \* what the call before returned (history)
    ppc,                \* "ready" before the first call, "done" after a call
    \* --- applyPostProcessing(rawSegments, rawParagraphs, options) ---
    rawSegments,        \* the segments received from the API
    rawParagraphs,      \* the paragraphs received from the API
    options,            \* the options of the latest call
    outSegments,        \* the returned segments
    outParagraphs,      \* the returned paragraphs
    pristine,           \* the API response as it was received (history)
    qpc,                \* "ready" before the first call, "done" after a call,
                        \* "fed" after a call on its own output
    \* --- exportTranscript(segments, paragraphs, viewMode, format, filename) ---
    expSegments,        \* the segments argument
    expParagraphs,      \* the paragraphs argument
    viewMode,           \* "line" or "para"
    format,             \* "srt", "vtt", "txt" or "json"
    filename,           \* the filename argument
    content,            \* local: the serialized transcript
    mimeType,           \* local: the MIME type of the blob
    ext,                \* local: the extension of the download
    url,                \* the object URL: "none", "live" or "revoked"
    anchor,             \* the <a> element: [href, download]
    delivered,          \* what the click handed to the browser
    epc,                \* the position of the call in exportTranscript
    \* --- renderText(text, searchQuery) ---
    rtext,              \* the text argument
    query,              \* the searchQuery argument: [present, value]
    spans,              \* the spans of the returned element, in order
    redactionLastIndex, \* REDACTION_PATTERN.lastIndex (module state)
    vpc,                \* "ready" before the first call, "done" after a call
    \* --- ParagraphView: highlightText(text, query) on the same text ---
    hspans,             \* the children of the returned element, in order
    hpc                 \* "ready" before the call, "done" after it

varsRules == <<text, rules, result, prevResult, rpc>>
varsPara == <<segments, silenceThreshold, paragraphs, prevThreshold, prevParagraphs, ppc>>
varsPost == <<rawSegments, rawParagraphs, options, outSegments, outParagraphs,
              pristine, qpc>>

varsExport == <<expSegments, expParagraphs, viewMode, format, filename,
                content, mimeType, ext, url, anchor, delivered, epc>>
varsRender == <<rtext, query, spans, redactionLastIndex, vpc, hspans, hpc>>

vars == <<text, rules, result, prevResult, rpc,
          segments, silenceThreshold, paragraphs, prevThreshold, prevParagraphs, ppc,
          rawSegments, rawParagraphs, options, outSegments, outParagraphs,
          pristine, qpc,
          expSegments, expParagraphs, viewMode, format, filename,
          content, mimeType, ext, url, anchor, delivered, epc,
          rtext, query, spans, redactionLastIndex, vpc, hspans, hpc>>

\* ------------------------------------------------------------------------
\* Bounds of the model
\* ------------------------------------------------------------------------
MaxTextLen == 3          \* longest text given to a single rule
MaxListTextLen == 2      \* longest text given to a list of rules
MaxRules == 3            \* longest rule list
MaxFindLen == 2          \* longest find of a single rule
MaxSegs == 3             \* longest segment list given to the grouper
MaxTime == 1             \* latest start / end of a segment, in ticks
MaxThreshold == 1        \* largest silence threshold, in ticks
MaxTextSegs == 3         \* longest segment list with varied texts
MaxPostSegs == 2         \* longest segment list given to applyPostProcessing
MaxExportSegs == 3       \* longest segment list given to exportTranscript
MaxNameLen == 3          \* longest filename given to exportTranscript
MaxRenderPieces == 3     \* most pieces a rendered text is made of
MaxRegroupSegs == 3      \* longest segment list that is grouped again
MaxQueryLen == 2         \* longest search query

Undefined == "undefined"

\* ------------------------------------------------------------------------
\* Characters and strings (ECMAScript semantics of the characters used)
\* ------------------------------------------------------------------------
WordChars == {"a", "A", "b", "B"}             \* \w characters of the model
WhiteSpace == {" ", "\t", "\n"}                   \* \s characters / trim()
MetaChars == {".", "*", "+", "?", "^", "$", "{", "}", "(", ")", "|", "[", "]", "\\"}

TextAlphabet == {"a", "A", " ", ",", "."}

IsWordChar(c) == c \in WordChars

ToUpper(c) == IF c = "a" THEN "A" ELSE IF c = "b" THEN "B" ELSE c

\* All sequences over S of length 0..n
SeqsUpTo(S, n) == UNION {[1..k -> S] : k \in 0..n}

RECURSIVE Concat(_)
Concat(ss) == IF ss = <<>> THEN <<>> ELSE Head(ss) \o Concat(Tail(ss))

\* String.prototype.trim
RECURSIVE TrimStart(_)
TrimStart(s) ==
    IF s # <<>> /\ Head(s) \in WhiteSpace THEN TrimStart(Tail(s)) ELSE s

RECURSIVE TrimEnd(_)
TrimEnd(s) ==
    IF s # <<>> /\ s[Len(s)] \in WhiteSpace
    THEN TrimEnd(SubSeq(s, 1, Len(s) - 1)) ELSE s

Trim(s) == TrimEnd(TrimStart(s))

\* Array.prototype.join(" ")
RECURSIVE JoinSpace(_)
JoinSpace(ts) ==
    IF ts = <<>> THEN <<>>
    ELSE IF Len(ts) = 1 THEN ts[1]
    ELSE ts[1] \o <<" ">> \o JoinSpace(Tail(ts))

\* ------------------------------------------------------------------------
\* Regular expressions: the fragment of ECMAScript patterns the rules use.
\* A compiled pattern is a sequence of atoms:
\*   [t |-> "ch", c |-> x]  the character x
\*   [t |-> "any"]          .   (any character but a line terminator)
\*   [t |-> "wb"]           \b  (word boundary assertion)
\* Groups ( ) only group (no alternation or quantifier in the fragment).
\* ------------------------------------------------------------------------
JSFlagChars == {"d", "g", "i", "m", "s", "u", "v", "y"}

\* new RegExp(_, flags) throws SyntaxError on an unknown or repeated flag
ValidFlags(f) ==
    /\ \A k \in 1..Len(f) : f[k] \in JSFlagChars
    /\ \A j, k \in 1..Len(f) : j # k => f[j] # f[k]
    /\ ~({"u", "v"} \subseteq {f[k] : k \in 1..Len(f)})

HasFlag(f, c) == \E k \in 1..Len(f) : f[k] = c

\* Parse a pattern source from position k at group depth d.
\* Returns [ok, atoms]; ok = FALSE is a SyntaxError.
RECURSIVE ParsePattern(_, _, _)
ParsePattern(src, k, d) ==
    IF k > Len(src) THEN [ok |-> d = 0, atoms |-> <<>>]
    ELSE IF src[k] = "\\" THEN
        IF k = Len(src) THEN [ok |-> FALSE, atoms |-> <<>>]   \* \ at end
        ELSE LET rest == ParsePattern(src, k + 2, d)
                 atom == IF src[k + 1] = "b" THEN [t |-> "wb"]
                         ELSE [t |-> "ch", c |-> src[k + 1]]
             IN [ok |-> rest.ok, atoms |-> <<atom>> \o rest.atoms]
    ELSE IF src[k] = "(" THEN ParsePattern(src, k + 1, d + 1)
    ELSE IF src[k] = ")" THEN
        IF d = 0 THEN [ok |-> FALSE, atoms |-> <<>>]          \* unmatched )
        ELSE ParsePattern(src, k + 1, d - 1)
    ELSE LET rest == ParsePattern(src, k + 1, d)
             atom == IF src[k] = "." THEN [t |-> "any"]
                     ELSE [t |-> "ch", c |-> src[k]]
         IN [ok |-> rest.ok, atoms |-> <<atom>> \o rest.atoms]

\* new RegExp(source, flags)
NewRegExp(source, flags) ==
    LET p == ParsePattern(source, 1, 0) IN
    IF ~ValidFlags(flags) \/ ~p.ok
    THEN [threw |-> TRUE, atoms |-> <<>>, global |-> FALSE, ignoreCase |-> FALSE]
    ELSE [threw |-> FALSE, atoms |-> p.atoms,
          global |-> HasFlag(flags, "g"), ignoreCase |-> HasFlag(flags, "i")]

\* \b holds at position p (between s[p-1] and s[p])
IsWordBoundary(s, p) ==
    LET before == p > 1 /\ IsWordChar(s[p - 1])
        after == p <= Len(s) /\ IsWordChar(s[p])
    IN before # after

CharMatches(c, x, ignoreCase) ==
    IF ignoreCase THEN ToUpper(c) = ToUpper(x) ELSE c = x

\* Do atoms k.. match s starting at position p?
RECURSIVE MatchAtoms(_, _, _, _, _)
MatchAtoms(s, re, k, p, ic) ==
    IF k > Len(re) THEN TRUE
    ELSE IF re[k].t = "wb" THEN IsWordBoundary(s, p) /\ MatchAtoms(s, re, k + 1, p, ic)
    ELSE /\ p <= Len(s)
         /\ IF re[k].t = "any" THEN TRUE ELSE CharMatches(s[p], re[k].c, ic)
         /\ MatchAtoms(s, re, k + 1, p + 1, ic)

MatchAt(s, regex, p) == MatchAtoms(s, regex.atoms, 1, p, regex.ignoreCase)

\* Number of characters a match consumes
MatchWidth(regex) == Cardinality({k \in 1..Len(regex.atoms) : regex.atoms[k].t # "wb"})

\* The positions (1-based) where the pattern matches in s
MatchPositions(s, regex) == {p \in 1..(Len(s) + 1) : MatchAt(s, regex, p)}

\* String.prototype.replace with a global regex: every leftmost
\* non-overlapping match from position p on is replaced.
RECURSIVE ReplaceAllFrom(_, _, _, _)
ReplaceAllFrom(s, regex, repl, p) ==
    IF p > Len(s) + 1 THEN <<>>
    ELSE LET here == IF p <= Len(s) THEN <<s[p]>> ELSE <<>> IN
         IF MatchAt(s, regex, p)
         THEN IF MatchWidth(regex) = 0
              THEN repl \o here \o ReplaceAllFrom(s, regex, repl, p + 1)
              ELSE repl \o ReplaceAllFrom(s, regex, repl, p + MatchWidth(regex))
         ELSE here \o ReplaceAllFrom(s, regex, repl, p + 1)

\* String.prototype.replace with a non-global regex: the first match only
ReplaceFirst(s, regex, repl) ==
    LET ps == MatchPositions(s, regex) IN
    IF ps = {} THEN s
    ELSE LET p == CHOOSE q \in ps : \A r \in ps : q <= r
         IN SubSeq(s, 1, p - 1) \o repl \o SubSeq(s, p + MatchWidth(regex), Len(s))

\* String.prototype.replace(regex, replacement)
StringReplace(s, regex, repl) ==
    IF regex.global THEN ReplaceAllFrom(s, regex, repl, 1)
    ELSE ReplaceFirst(s, regex, repl)

\* ------------------------------------------------------------------------
\* Rule engine (post-processing.ts, escapeRegex and applyTextRules)
\* A TextRule is [find, replace, isRegex, flags, category, enabled].
\* ------------------------------------------------------------------------
TextRule(find, replace, isRegex, flags, category, enabled) ==
    [find |-> find, replace |-> replace, isRegex |-> isRegex,
     flags |-> flags, category |-> category, enabled |-> enabled]

\* s.replace(/[.*+?^${}()|[\]\\]/g, "\\$&")
RECURSIVE escapeRegex(_)
escapeRegex(s) ==
    IF s = <<>> THEN <<>>
    ELSE (IF Head(s) \in MetaChars THEN <<"\\", Head(s)>> ELSE <<Head(s)>>)
         \o escapeRegex(Tail(s))

\* const flags = rule.flags || "gi"
EffectiveFlags(rule) == IF rule.flags = <<>> THEN <<"g", "i">> ELSE rule.flags

\* (mutant) the flags are used as given, "g" is not forced
SafeFlagsAsGiven(flags) == flags

\* const safeFlags = flags.includes("g") ? flags : "g" + flags
SafeFlags(flags) == IF HasFlag(flags, "g") THEN flags ELSE <<"g">> \o flags

\* the source handed to new RegExp
PatternSource(rule) ==
    IF rule.isRegex THEN rule.find
    ELSE <<"\\", "b">> \o escapeRegex(rule.find) \o <<"\\", "b">>

\* the body of the try block: compile, then replace
TryRule(running, rule) ==
    LET pattern == NewRegExp(PatternSource(rule), SafeFlags(EffectiveFlags(rule))) IN
    IF pattern.threw THEN [threw |-> TRUE, value |-> running]
    ELSE [threw |-> FALSE, value |-> StringReplace(running, pattern, rule.replace)]

\* (mutant) no try/catch around the rule: the SyntaxError escapes
RuleIterationUncaught(running, rule) ==
    IF ~rule.enabled \/ rule.find = <<>> THEN [threw |-> FALSE, value |-> running]
    ELSE TryRule(running, rule)

\* one iteration of the for loop: the guard, the try block and the catch
RuleIteration(running, rule) ==
    IF ~rule.enabled \/ rule.find = <<>> THEN [threw |-> FALSE, value |-> running]
    ELSE LET t == TryRule(running, rule) IN
         IF t.threw THEN [threw |-> FALSE, value |-> running]   \* catch {}
         ELSE t

\* (mutant) the rules are visited from the last to the first
RECURSIVE RuleLoopBackwards(_, _, _)
RuleLoopBackwards(running, rs, i) ==
    IF i > Len(rs) THEN [threw |-> FALSE, value |-> running]
    ELSE LET it == RuleIteration(running, rs[Len(rs) + 1 - i]) IN
         IF it.threw THEN it ELSE RuleLoopBackwards(it.value, rs, i + 1)

\* for (const rule of rules) from index i on; an exception that escapes an
\* iteration ends the call
RECURSIVE RuleLoop(_, _, _)
RuleLoop(running, rs, i) ==
    IF i > Len(rs) THEN [threw |-> FALSE, value |-> running]
    ELSE LET it == RuleIteration(running, rs[i]) IN
         IF it.threw THEN it ELSE RuleLoop(it.value, rs, i + 1)

\* last position of the run of characters of S that starts at p (p-1: none)
RECURSIVE RunEnd(_, _, _)
RunEnd(s, p, S) ==
    IF p <= Len(s) /\ s[p] \in S THEN RunEnd(s, p + 1, S) ELSE p - 1

\* .replace(/ {2,}/g, " ")
RECURSIVE CollapseSpaces(_, _)
CollapseSpaces(s, p) ==
    IF p > Len(s) THEN <<>>
    ELSE LET q == RunEnd(s, p, {" "}) IN
         IF q >= p + 1 THEN <<" ">> \o CollapseSpaces(s, q + 1)
         ELSE <<s[p]>> \o CollapseSpaces(s, p + 1)

\* .replace(/,\s*,/g, ",")
RECURSIVE FixCommas(_, _)
FixCommas(s, p) ==
    IF p > Len(s) THEN <<>>
    ELSE LET q == RunEnd(s, p + 1, WhiteSpace) IN
         IF s[p] = "," /\ q + 1 <= Len(s) /\ s[q + 1] = ","
         THEN <<",">> \o FixCommas(s, q + 2)
         ELSE <<s[p]>> \o FixCommas(s, p + 1)

\* result.replace(/ {2,}/g, " ").replace(/,\s*,/g, ",").trim()
Cleanup(s) == Trim(FixCommas(CollapseSpaces(s, 1), 1))

applyTextRules(t, rs) ==
    LET looped == RuleLoop(t, rs, 1) IN
    IF looped.threw THEN looped
    ELSE [threw |-> FALSE, value |-> Cleanup(looped.value)]

\* ------------------------------------------------------------------------
\* Paragraph grouper (post-processing.ts, detectParagraphsClient)
\* A Segment is [start, end, text, speaker]; speaker may be Undefined.
\* A Paragraph is [speaker, start, end, text, segment_count].
\* ------------------------------------------------------------------------
Segment(start, end, txt, speaker) ==
    [start |-> start, end |-> end, text |-> txt, speaker |-> speaker]

\* (mutant) the text that opens a paragraph is taken untrimmed
NewCurrentUntrimmed(seg) ==
    [speaker |-> seg.speaker, start |-> seg.start, end |-> seg.end,
     texts |-> <<seg.text>>, segmentCount |-> 1]

\* current = { speaker, start, end, texts: [text.trim()], segmentCount: 1 }
NewCurrent(seg) ==
    [speaker |-> seg.speaker, start |-> seg.start, end |-> seg.end,
     texts |-> <<Trim(seg.text)>>, segmentCount |-> 1]

\* (mutant) the open paragraph is extended without counting the segment
ExtendCurrentNoCount(current, seg) ==
    [current EXCEPT !.end = seg.end, !.texts = Append(@, Trim(seg.text))]

\* current.end = seg.end; current.texts.push(seg.text.trim()); segmentCount++
ExtendCurrent(current, seg) ==
    [current EXCEPT !.end = seg.end,
                    !.texts = Append(@, Trim(seg.text)),
                    !.segmentCount = @ + 1]

\* the object pushed on paragraphs when the open paragraph is closed
ClosedParagraph(current) ==
    [speaker |-> current.speaker, start |-> current.start, end |-> current.end,
     text |-> JoinSpace(current.texts), segment_count |-> current.segmentCount]

\* (mutant) a speaker change alone does not break, the gap decides
ShouldBreakGapOnly(current, seg, threshold) ==
    seg.start - current.end > threshold

\* (mutant) the gap is measured from the start of the open paragraph
ShouldBreakFromParagraphStart(current, seg, threshold) ==
    LET silenceGap == seg.start - current.start
        speakerChanged == seg.speaker # current.speaker
    IN speakerChanged \/ silenceGap > threshold

\* (mutant) a gap equal to the threshold breaks too
ShouldBreakAtThreshold(current, seg, threshold) ==
    LET silenceGap == seg.start - current.end
        speakerChanged == seg.speaker # current.speaker
    IN speakerChanged \/ silenceGap >= threshold

\* speakerChanged || silenceGap > silenceThreshold
ShouldBreak(current, seg, threshold) ==
    LET silenceGap == seg.start - current.end
        speakerChanged == seg.speaker # current.speaker
    IN speakerChanged \/ silenceGap > threshold

\* for (let i = 1; i < segments.length; i++) { ... } and the final push
\* (i is 1-based here)
RECURSIVE DetectLoop(_, _, _, _, _)
DetectLoop(segs, threshold, i, current, ps) ==
    IF i > Len(segs) THEN Append(ps, ClosedParagraph(current))
    ELSE IF ShouldBreak(current, segs[i], threshold)
         THEN DetectLoop(segs, threshold, i + 1, NewCurrent(segs[i]),
                         Append(ps, ClosedParagraph(current)))
         ELSE DetectLoop(segs, threshold, i + 1, ExtendCurrent(current, segs[i]), ps)

detectParagraphsClient(segs, threshold) ==
    IF Len(segs) = 0 THEN <<>>
    ELSE DetectLoop(segs, threshold, 2, NewCurrent(segs[1]), <<>>)

\* ------------------------------------------------------------------------
\* Orchestrator (post-processing.ts, applyPostProcessing)
\* A returned segment is a Segment with an originalSpeaker field. A raw
\* paragraph is a Paragraph with entity_counts and sentiment (Undefined
\* when absent); a returned paragraph has an originalSpeaker field too.
\* options is [detectParagraphs, paragraphSilenceThreshold, textRulesEnabled,
\* textRules, textRuleCategory, speakerLabels]; speakerLabels is a function
\* from the speakers that have an entry to their labels.
\* ------------------------------------------------------------------------
\* Math.abs(rp.start - p.start) < 0.01, in ticks of 5 ms
CarryEpsilon == 2

Abs(x) == IF x < 0 THEN 0 - x ELSE x

\* a truthy JavaScript value among the values of the model
Truthy(v) == v # Undefined /\ v # ""

\* rawSegments.map((s) => ({ ...s, originalSpeaker: s.speaker }))
CopySegment(seg) ==
    [start |-> seg.start, end |-> seg.end, text |-> seg.text,
     speaker |-> seg.speaker, originalSpeaker |-> seg.speaker]

\* .map((p) => ({ ...p, originalSpeaker: p.speaker })) on a detected paragraph
CopyDetected(p) ==
    [speaker |-> p.speaker, start |-> p.start, end |-> p.end, text |-> p.text,
     segment_count |-> p.segment_count, originalSpeaker |-> p.speaker,
     entity_counts |-> Undefined, sentiment |-> Undefined]

\* rawParagraphs.map((p) => ({ ...p, originalSpeaker: p.speaker }))
CopyRawParagraph(p) ==
    [speaker |-> p.speaker, start |-> p.start, end |-> p.end, text |-> p.text,
     segment_count |-> p.segment_count, originalSpeaker |-> p.speaker,
     entity_counts |-> p.entity_counts, sentiment |-> p.sentiment]

\* rawParagraphs.find((rp) => Math.abs(rp.start - p.start) < 0.01):
\* the index of the first match, 0 when there is none
FindMatch(rawParas, p) ==
    LET hits == {k \in 1..Len(rawParas) : Abs(rawParas[k].start - p.start) < CarryEpsilon}
    IN IF hits = {} THEN 0 ELSE CHOOSE k \in hits : \A j \in hits : k <= j

\* (mutant) only a raw paragraph with the very same start is a match
CarryOverExactStart(rawParas, p) ==
    LET hits == {k \in 1..Len(rawParas) : rawParas[k].start = p.start}
        m == IF hits = {} THEN 0 ELSE CHOOSE k \in hits : \A j \in hits : k <= j
    IN IF m = 0 THEN p
       ELSE [p EXCEPT
               !.entity_counts = IF Truthy(rawParas[m].entity_counts)
                                 THEN rawParas[m].entity_counts ELSE @,
               !.sentiment = IF Truthy(rawParas[m].sentiment)
                             THEN rawParas[m].sentiment ELSE @]

\* the body of for (const p of paragraphs): carry entity_counts and sentiment
CarryOver(rawParas, p) ==
    LET m == FindMatch(rawParas, p) IN
    IF m = 0 THEN p
    ELSE [p EXCEPT
            !.entity_counts = IF Truthy(rawParas[m].entity_counts)
                              THEN rawParas[m].entity_counts ELSE @,
            !.sentiment = IF Truthy(rawParas[m].sentiment)
                          THEN rawParas[m].sentiment ELSE @]

\* step 1: the paragraphs before relabeling
StepParagraphs(rawSegs, rawParas, opts) ==
    IF opts.detectParagraphs /\ Len(rawSegs) > 0
    THEN LET detected == detectParagraphsClient(rawSegs, opts.paragraphSilenceThreshold)
         IN [k \in 1..Len(detected) |-> CarryOver(rawParas, CopyDetected(detected[k]))]
    ELSE [k \in 1..Len(rawParas) |-> CopyRawParagraph(rawParas[k])]

\* s.speaker && options.speakerLabels[s.speaker] ? options.speakerLabels[s.speaker] : s.speaker
DisplaySpeaker(speaker, labels) ==
    IF Truthy(speaker) /\ speaker \in DOMAIN labels /\ Truthy(labels[speaker])
    THEN labels[speaker] ELSE speaker

\* (mutant) the label is written over the internal identifier as well
RelabelOverwritingOriginal(records, labels) ==
    IF DOMAIN labels # {}
    THEN [k \in 1..Len(records) |->
            [records[k] EXCEPT !.speaker = DisplaySpeaker(@, labels),
                               !.originalSpeaker = DisplaySpeaker(@, labels)]]
    ELSE records

\* step 2: custom speaker labels, on segments and on paragraphs alike
Relabel(records, labels) ==
    IF DOMAIN labels # {}
    THEN [k \in 1..Len(records) |->
            [records[k] EXCEPT !.speaker = DisplaySpeaker(@, labels)]]
    ELSE records

\* (mutant) the active category is ignored
ActiveRulesAnyCategory(opts) ==
    SelectSeq(opts.textRules, LAMBDA r : r.enabled /\ r.find # <<>>)

\* options.textRules.filter((r) => r.enabled && r.find && (category matches))
ActiveRules(opts) ==
    SelectSeq(opts.textRules,
        LAMBDA r : /\ r.enabled
                   /\ r.find # <<>>
                   /\ (opts.textRuleCategory = "all" \/ r.category = opts.textRuleCategory))

\* step 3: the text rules, on segments and on paragraphs alike
ApplyRulesToTexts(records, opts) ==
    IF opts.textRulesEnabled /\ Len(ActiveRules(opts)) > 0
    THEN [k \in 1..Len(records) |->
            [records[k] EXCEPT !.text = applyTextRules(@, ActiveRules(opts)).value]]
    ELSE records

\* (mutant) the paragraphs are detected on the relabeled segments
applyPostProcessingGroupingByLabel(rawSegs, rawParas, opts) ==
    LET copies == [k \in 1..Len(rawSegs) |-> CopySegment(rawSegs[k])] IN
    [segments |-> ApplyRulesToTexts(Relabel(copies, opts.speakerLabels), opts),
     paragraphs |-> ApplyRulesToTexts(
                        Relabel(StepParagraphs(Relabel(rawSegs, opts.speakerLabels),
                                               rawParas, opts),
                                opts.speakerLabels), opts)]

applyPostProcessing(rawSegs, rawParas, opts) ==
    LET copies == [k \in 1..Len(rawSegs) |-> CopySegment(rawSegs[k])] IN
    [segments |-> ApplyRulesToTexts(Relabel(copies, opts.speakerLabels), opts),
     paragraphs |-> ApplyRulesToTexts(
                        Relabel(StepParagraphs(rawSegs, rawParas, opts),
                                opts.speakerLabels), opts)]

\* ------------------------------------------------------------------------
\* Export serializer (export.ts)
\* A speaker of an exported unit is a one-character name, so that the
\* characters a template literal writes for it are that one character.
\* Times are ticks of 5 ms; the exported times are whole hundredths.
\* ------------------------------------------------------------------------
NL == <<"\n">>

\* String(n) for a natural number
RECURSIVE Digits(_)
Digits(n) ==
    LET d == <<"0", "1", "2", "3", "4", "5", "6", "7", "8", "9">>[(n % 10) + 1]
    IN IF n < 10 THEN <<d>> ELSE Append(Digits(n \div 10), d)

\* s.padStart(width, "0")
RECURSIVE PadStart(_, _)
PadStart(ds, width) == IF Len(ds) < width THEN PadStart(<<"0">> \o ds, width) ELSE ds

\* formatTimestamp(seconds) of ./format-time: minutes, zero-padded seconds
\* and zero-padded hundredths, M:SS.CC
formatTimestamp(t) ==
    Digits(t \div 12000) \o <<":">> \o PadStart(Digits((t \div 200) % 60), 2)
        \o <<".">> \o PadStart(Digits((t \div 2) % 100), 2)

\* s.replace(".", ","): the first occurrence only
RECURSIVE ReplaceFirstDot(_)
ReplaceFirstDot(s) ==
    IF s = <<>> THEN <<>>
    ELSE IF Head(s) = "." THEN <<",">> \o Tail(s)
    ELSE <<Head(s)>> \o ReplaceFirstDot(Tail(s))

\* the characters of a speaker name
SpeakerChars(speaker) == IF speaker = "" THEN <<>> ELSE <<speaker>>

\* parts.join(sep)
RECURSIVE Join(_, _)
Join(parts, sep) ==
    IF parts = <<>> THEN <<>>
    ELSE IF Len(parts) = 1 THEN parts[1]
    ELSE parts[1] \o sep \o Join(Tail(parts), sep)

Arrow == <<" ", "-", "-", ">", " ">>

\* (mutant) the blocks are numbered from 0
SrtBlockFromZero(unit, i) ==
    LET start == ReplaceFirstDot(formatTimestamp(unit.start))
        end == ReplaceFirstDot(formatTimestamp(unit.end))
        speaker == IF Truthy(unit.speaker)
                   THEN <<"[">> \o SpeakerChars(unit.speaker) \o <<"]", " ">>
                   ELSE <<>>
    IN Digits(i - 1) \o NL \o start \o Arrow \o end \o NL \o speaker \o Trim(unit.text) \o NL

\* `${i + 1}\n${start} --> ${end}\n${speaker}${unit.text.trim()}\n`
SrtBlock(unit, i) ==
    LET start == ReplaceFirstDot(formatTimestamp(unit.start))
        end == ReplaceFirstDot(formatTimestamp(unit.end))
        speaker == IF Truthy(unit.speaker)
                   THEN <<"[">> \o SpeakerChars(unit.speaker) \o <<"]", " ">>
                   ELSE <<>>
    IN Digits(i) \o NL \o start \o Arrow \o end \o NL \o speaker \o Trim(unit.text) \o NL

segmentsToSRT(segs) == Join([i \in 1..Len(segs) |-> SrtBlock(segs[i], i)], NL)

paragraphsToSRT(ps) == Join([i \in 1..Len(ps) |-> SrtBlock(ps[i], i)], NL)

\* `${start} --> ${end}\n${speaker}${unit.text.trim()}\n`
VttCue(unit) ==
    LET speaker == IF Truthy(unit.speaker)
                   THEN <<"<", "v", " ">> \o SpeakerChars(unit.speaker) \o <<">">>
                   ELSE <<>>
    IN formatTimestamp(unit.start) \o Arrow \o formatTimestamp(unit.end) \o NL
           \o speaker \o Trim(unit.text) \o NL

VttHeader == <<"W", "E", "B", "V", "T", "T", "\n", "\n">>

segmentsToVTT(segs) == VttHeader \o Join([i \in 1..Len(segs) |-> VttCue(segs[i])], NL)

paragraphsToVTT(ps) == VttHeader \o Join([i \in 1..Len(ps) |-> VttCue(ps[i])], NL)

\* (mutant) a segment without speaker makes the loop forget the last header
RECURSIVE TxtLoopForgetting(_, _, _, _)
TxtLoopForgetting(segs, i, txt, lastSpeaker) ==
    IF i > Len(segs) THEN [txt |-> txt, lastSpeaker |-> lastSpeaker]
    ELSE LET label == IF segs[i].speaker = Undefined THEN "" ELSE segs[i].speaker
             header == label # "" /\ label # lastSpeaker
             txt1 == IF header THEN txt \o NL \o SpeakerChars(label) \o <<":", "\n">>
                     ELSE txt
         IN TxtLoopForgetting(segs, i + 1, txt1 \o Trim(segs[i].text) \o <<" ">>, label)

\* the loop of segmentsToTXT from segment i on: [txt, lastSpeaker]
RECURSIVE TxtLoop(_, _, _, _)
TxtLoop(segs, i, txt, lastSpeaker) ==
    IF i > Len(segs) THEN [txt |-> txt, lastSpeaker |-> lastSpeaker]
    ELSE LET label == IF segs[i].speaker = Undefined THEN "" ELSE segs[i].speaker
             header == label # "" /\ label # lastSpeaker
             txt1 == IF header THEN txt \o NL \o SpeakerChars(label) \o <<":", "\n">>
                     ELSE txt
         IN TxtLoop(segs, i + 1, txt1 \o Trim(segs[i].text) \o <<" ">>,
                    IF header THEN label ELSE lastSpeaker)

segmentsToTXT(segs) == Trim(TxtLoop(segs, 1, <<>>, "").txt)

\* `${label}${p.text.trim()}`
TxtParagraph(p) ==
    (IF Truthy(p.speaker) THEN SpeakerChars(p.speaker) \o <<":", "\n">> ELSE <<>>)
        \o Trim(p.text)

paragraphsToTXT(ps) == Join([i \in 1..Len(ps) |-> TxtParagraph(ps[i])], <<"\n", "\n">>)

\* JSON.stringify of a time: t ticks are t * 0.005 seconds
JsonNumber(t) ==
    LET whole == Digits((t * 5) \div 1000)
        frac == PadStart(Digits((t * 5) % 1000), 3)
        RECURSIVE DropZeros(_)
        DropZeros(ds) == IF ds # <<>> /\ ds[Len(ds)] = "0"
                         THEN DropZeros(SubSeq(ds, 1, Len(ds) - 1)) ELSE ds
    IN IF (t * 5) % 1000 = 0 THEN whole ELSE whole \o <<".">> \o DropZeros(frac)

\* JSON.stringify of a string
RECURSIVE JsonEscape(_)
JsonEscape(s) ==
    IF s = <<>> THEN <<>>
    ELSE (IF Head(s) \in {"\"", "\\"} THEN <<"\\", Head(s)>>
          ELSE IF Head(s) = "\n" THEN <<"\\", "n">>
          ELSE IF Head(s) = "\t" THEN <<"\\", "t">>
          ELSE <<Head(s)>>) \o JsonEscape(Tail(s))

JsonString(s) == <<"\"">> \o JsonEscape(s) \o <<"\"">>

\* one property of an element, at the indentation of JSON.stringify(_, null, 2)
JsonField(key, value) ==
    <<" ", " ", " ", " ", "\"">> \o key \o <<"\"", ":", " ">> \o value

\* (mutant) an empty array is written over three lines as well
JsonArrayAlwaysOpen(elements) ==
    <<"[", "\n">>
    \o Join([i \in 1..Len(elements) |->
               <<" ", " ", "{", "\n">> \o Join(elements[i], <<",", "\n">>)
                   \o <<"\n", " ", " ", "}">>],
            <<",", "\n">>)
    \o <<"\n", "]">>

\* JSON.stringify(elements, null, 2), each element given by its properties
JsonArray(elements) ==
    IF elements = <<>> THEN <<"[", "]">>
    ELSE <<"[", "\n">>
         \o Join([i \in 1..Len(elements) |->
                    <<" ", " ", "{", "\n">> \o Join(elements[i], <<",", "\n">>)
                        \o <<"\n", " ", " ", "}">>],
                 <<",", "\n">>)
         \o <<"\n", "]">>

\* { start, end, speaker: s.speaker ?? undefined, text: s.text.trim() };
\* a property whose value is undefined is left out
SegmentFields(unit) ==
    <<JsonField(<<"s", "t", "a", "r", "t">>, JsonNumber(unit.start)),
      JsonField(<<"e", "n", "d">>, JsonNumber(unit.end))>>
    \o (IF unit.speaker # Undefined
        THEN <<JsonField(<<"s", "p", "e", "a", "k", "e", "r">>,
                         JsonString(SpeakerChars(unit.speaker)))>>
        ELSE <<>>)
    \o <<JsonField(<<"t", "e", "x", "t">>, JsonString(Trim(unit.text)))>>

segmentsToJSON(segs) == JsonArray([i \in 1..Len(segs) |-> SegmentFields(segs[i])])

\* the properties of a segment, then segment_count and the annotations
\* that are present (an annotation is a one-character value here)
ParagraphFields(p) ==
    SegmentFields(p)
    \o <<JsonField(<<"s", "e", "g", "m", "e", "n", "t", "_", "c", "o", "u", "n", "t">>,
                   Digits(p.segment_count))>>
    \o (IF Truthy(p.entity_counts)
        THEN <<JsonField(<<"e", "n", "t", "i", "t", "y", "_", "c", "o", "u", "n", "t", "s">>,
                         JsonString(<<p.entity_counts>>))>>
        ELSE <<>>)
    \o (IF Truthy(p.sentiment)
        THEN <<JsonField(<<"s", "e", "n", "t", "i", "m", "e", "n", "t">>,
                         JsonString(<<p.sentiment>>))>>
        ELSE <<>>)

paragraphsToJSON(ps) == JsonArray([i \in 1..Len(ps) |-> ParagraphFields(ps[i])])

\* (mutant) the paragraph view never falls back to the segments
SerializedWithoutFallback(segs, ps, mode, fmt) ==
    IF mode = "para"
    THEN CASE fmt = "srt" ->
                [content |-> paragraphsToSRT(ps), mimeType |-> "text/srt",
                 ext |-> <<"s", "r", "t">>]
           [] fmt = "vtt" ->
                [content |-> paragraphsToVTT(ps), mimeType |-> "text/vtt",
                 ext |-> <<"v", "t", "t">>]
           [] fmt = "txt" ->
                [content |-> paragraphsToTXT(ps), mimeType |-> "text/plain",
                 ext |-> <<"t", "x", "t">>]
           [] fmt = "json" ->
                [content |-> paragraphsToJSON(ps), mimeType |-> "application/json",
                 ext |-> <<"j", "s", "o", "n">>]
    ELSE CASE fmt = "srt" ->
                [content |-> segmentsToSRT(segs), mimeType |-> "text/srt",
                 ext |-> <<"s", "r", "t">>]
           [] fmt = "vtt" ->
                [content |-> segmentsToVTT(segs), mimeType |-> "text/vtt",
                 ext |-> <<"v", "t", "t">>]
           [] fmt = "txt" ->
                [content |-> segmentsToTXT(segs), mimeType |-> "text/plain",
                 ext |-> <<"t", "x", "t">>]
           [] fmt = "json" ->
                [content |-> segmentsToJSON(segs), mimeType |-> "application/json",
                 ext |-> <<"j", "s", "o", "n">>]

\* the two switch statements of exportTranscript: [content, mimeType, ext]
Serialized(segs, ps, mode, fmt) ==
    IF mode = "para" /\ Len(ps) > 0
    THEN CASE fmt = "srt" ->
                [content |-> paragraphsToSRT(ps), mimeType |-> "text/srt",
                 ext |-> <<"s", "r", "t">>]
           [] fmt = "vtt" ->
                [content |-> paragraphsToVTT(ps), mimeType |-> "text/vtt",
                 ext |-> <<"v", "t", "t">>]
           [] fmt = "txt" ->
                [content |-> paragraphsToTXT(ps), mimeType |-> "text/plain",
                 ext |-> <<"t", "x", "t">>]
           [] fmt = "json" ->
                [content |-> paragraphsToJSON(ps), mimeType |-> "application/json",
                 ext |-> <<"j", "s", "o", "n">>]
    ELSE CASE fmt = "srt" ->
                [content |-> segmentsToSRT(segs), mimeType |-> "text/srt",
                 ext |-> <<"s", "r", "t">>]
           [] fmt = "vtt" ->
                [content |-> segmentsToVTT(segs), mimeType |-> "text/vtt",
                 ext |-> <<"v", "t", "t">>]
           [] fmt = "txt" ->
                [content |-> segmentsToTXT(segs), mimeType |-> "text/plain",
                 ext |-> <<"t", "x", "t">>]
           [] fmt = "json" ->
                [content |-> segmentsToJSON(segs), mimeType |-> "application/json",
                 ext |-> <<"j", "s", "o", "n">>]

\* name.replace(/\.[^.]+$/, ""): the match starts at a dot that is followed,
\* up to the end of the name, by one or more characters none of which is a
\* dot; 0 when there is no such dot
ExtensionMatch(name) ==
    LET starts == {i \in 1..Len(name) :
                      /\ name[i] = "."
                      /\ i < Len(name)
                      /\ \A j \in (i + 1)..Len(name) : name[j] # "."}
    IN IF starts = {} THEN 0 ELSE CHOOSE i \in starts : \A j \in starts : i <= j

StripExtension(name) ==
    IF ExtensionMatch(name) = 0 THEN name ELSE SubSeq(name, 1, ExtensionMatch(name) - 1)

\* `${filename.replace(/\.[^.]+$/, "")}.${ext}`
DownloadName(name, extension) == StripExtension(name) \o <<".">> \o extension

\* ------------------------------------------------------------------------
\* Inline highlighter (highlight-text.tsx, renderText)
\* A match of a pattern at a position of a string is given by the position
\* just after it, 0 when the pattern does not match there. lastIndex is
\* 0-based as in JavaScript, positions are 1-based.
\* The returned element is the sequence of its top-level spans
\* [kind, text, children]: kind "redaction" or "plain" with no children,
\* or kind "searched" with the children [kind "mark" or "plain", text].
\* ------------------------------------------------------------------------
UpperLetters == {"A", "B"}                                  \* [A-Z] of the model
DigitChars == {"0", "1", "2", "3", "4", "5", "6", "7", "8", "9"}
MarkerChars == UpperLetters \cup DigitChars \cup {" "}      \* [A-Z0-9 ]

\* REDACTION_PATTERN = /(\[[A-Z][A-Z0-9 ]*\])/g at position p of s
RedactionEnd(s, p) ==
    IF p + 2 <= Len(s) /\ s[p] = "[" /\ s[p + 1] \in UpperLetters
    THEN LET e == RunEnd(s, p + 2, MarkerChars) IN
         IF e + 1 <= Len(s) /\ s[e + 1] = "]" THEN e + 2 ELSE 0
    ELSE 0

RedactionEnds(s) == [p \in 1..Len(s) |-> RedactionEnd(s, p)]

\* new RegExp(`(${escaped})`, "gi")
SearchRegex(searchQuery) ==
    NewRegExp(<<"(">> \o escapeRegex(searchQuery) \o <<")">>, <<"g", "i">>)

SearchEnds(s, regex) ==
    [p \in 1..Len(s) |-> IF MatchAt(s, regex, p) THEN p + MatchWidth(regex) ELSE 0]

\* (mutant) split by a pattern without a capturing group: the matches are
\* left out of the result
RECURSIVE SplitFromDroppingMatches(_, _, _, _)
SplitFromDroppingMatches(s, ends, p, q) ==
    IF q > Len(s) THEN <<SubSeq(s, p, Len(s))>>
    ELSE IF ends[q] = 0 \/ ends[q] = p THEN SplitFromDroppingMatches(s, ends, p, q + 1)
    ELSE <<SubSeq(s, p, q - 1)>> \o SplitFromDroppingMatches(s, ends, ends[q], ends[q])

\* String.prototype.split with a pattern that has one capturing group,
\* from the chunk start p and the position q under test
RECURSIVE SplitFrom(_, _, _, _)
SplitFrom(s, ends, p, q) ==
    IF q > Len(s) THEN <<SubSeq(s, p, Len(s))>>
    ELSE IF ends[q] = 0 \/ ends[q] = p THEN SplitFrom(s, ends, p, q + 1)
    ELSE <<SubSeq(s, p, q - 1), SubSeq(s, q, ends[q] - 1)>>
             \o SplitFrom(s, ends, ends[q], ends[q])

\* the empty string splits into one empty chunk (the patterns here do not
\* match the empty string)
StringSplit(s, ends) == IF s = <<>> THEN <<s>> ELSE SplitFrom(s, ends, 1, 1)

\* (mutant) a failed test leaves lastIndex where it was
TestGlobalKeepingIndex(s, ends, lastIndex) ==
    LET hits == {q \in (lastIndex + 1)..Len(s) : ends[q] # 0} IN
    IF hits = {} THEN [found |-> FALSE, lastIndex |-> lastIndex]
    ELSE LET q == CHOOSE q \in hits : \A r \in hits : q <= r
         IN [found |-> TRUE, lastIndex |-> ends[q] - 1]

\* RegExp.prototype.test of a global pattern: the search starts at
\* lastIndex; a match moves lastIndex to its end, a failure resets it to 0
TestGlobal(s, ends, lastIndex) ==
    LET hits == {q \in (lastIndex + 1)..Len(s) : ends[q] # 0} IN
    IF hits = {} THEN [found |-> FALSE, lastIndex |-> 0]
    ELSE LET q == CHOOSE q \in hits : \A r \in hits : q <= r
         IN [found |-> TRUE, lastIndex |-> ends[q] - 1]

Span(kind, t, children) == [kind |-> kind, text |-> t, children |-> children]

\* redactionParts.map(...) without a search query, from part i on
RECURSIVE PlainLoop(_, _, _, _)
PlainLoop(parts, i, lastIndex, out) ==
    IF i > Len(parts) THEN [spans |-> out, lastIndex |-> lastIndex]
    ELSE LET t == TestGlobal(parts[i], RedactionEnds(parts[i]), lastIndex) IN
         PlainLoop(parts, i + 1, t.lastIndex,
                   Append(out, Span(IF t.found THEN "redaction" ELSE "plain",
                                    parts[i], <<>>)))

\* searchParts.map(...) from chunk j on: [children, lastIndex of searchRegex]
RECURSIVE MarkLoop(_, _, _, _, _)
MarkLoop(searchParts, j, regex, lastIndex, out) ==
    IF j > Len(searchParts) THEN [children |-> out, lastIndex |-> lastIndex]
    ELSE LET t == TestGlobal(searchParts[j], SearchEnds(searchParts[j], regex), lastIndex)
         IN MarkLoop(searchParts, j + 1, regex, t.lastIndex,
                     Append(out, [kind |-> IF t.found THEN "mark" ELSE "plain",
                                  text |-> searchParts[j]]))

\* (mutant) the search query is applied to the redaction markers as well
RECURSIVE SearchLoopThroughMarkers(_, _, _, _, _, _)
SearchLoopThroughMarkers(parts, i, regex, lastIndex, searchIndex, out) ==
    IF i > Len(parts) THEN [spans |-> out, lastIndex |-> lastIndex]
    ELSE LET t == TestGlobal(parts[i], RedactionEnds(parts[i]), lastIndex)
             m == MarkLoop(StringSplit(parts[i], SearchEnds(parts[i], regex)),
                           1, regex, searchIndex, <<>>)
         IN SearchLoopThroughMarkers(parts, i + 1, regex, t.lastIndex, m.lastIndex,
                Append(out, Span("searched", parts[i], m.children)))

\* redactionParts.map(...) with a search query, from part i on; lastIndex
\* is that of REDACTION_PATTERN, searchIndex that of searchRegex
RECURSIVE SearchLoop(_, _, _, _, _, _)
SearchLoop(parts, i, regex, lastIndex, searchIndex, out) ==
    IF i > Len(parts) THEN [spans |-> out, lastIndex |-> lastIndex]
    ELSE LET t == TestGlobal(parts[i], RedactionEnds(parts[i]), lastIndex) IN
         IF t.found
         THEN SearchLoop(parts, i + 1, regex, t.lastIndex, searchIndex,
                         Append(out, Span("redaction", parts[i], <<>>)))
         ELSE LET m == MarkLoop(StringSplit(parts[i], SearchEnds(parts[i], regex)),
                                1, regex, searchIndex, <<>>)
              IN SearchLoop(parts, i + 1, regex, t.lastIndex, m.lastIndex,
                            Append(out, Span("searched", parts[i], m.children)))

\* renderText(text, searchQuery) entered with REDACTION_PATTERN.lastIndex =
\* lastIndex: [spans, lastIndex]
renderText(t, searchQuery, lastIndex) ==
    LET redactionParts == StringSplit(t, RedactionEnds(t)) IN
    IF ~searchQuery.present \/ searchQuery.value = <<>>
    THEN PlainLoop(redactionParts, 1, lastIndex, <<>>)
    ELSE SearchLoop(redactionParts, 1, SearchRegex(searchQuery.value), lastIndex, 0, <<>>)

\* ------------------------------------------------------------------------
\* Paragraph view (ParagraphView.tsx, highlightText)
\* The returned fragment is the sequence of its children [kind, text]:
\* kind "text" (a bare text node), "mark" or "plain" (a <span>).
\* ------------------------------------------------------------------------
\* the pattern is built and its chunks are tested as in renderText's
\* second stage: new RegExp(`(${escaped})`, "gi"), text.split(regex),
\* parts.map((part) => regex.test(part) ? <mark> : <span>)
highlightText(t, searchQuery) ==
    IF ~searchQuery.present \/ searchQuery.value = <<>>
    THEN <<[kind |-> "text", text |-> t]>>
    ELSE LET regex == SearchRegex(searchQuery.value)
             parts == StringSplit(t, SearchEnds(t, regex))
         IN MarkLoop(parts, 1, regex, 0, <<>>).children

\* ------------------------------------------------------------------------
\* A component that a specification does not exercise stays at rest
\* ------------------------------------------------------------------------
NoResult == [threw |-> FALSE, value |-> <<>>]

Options(detect, threshold, enabled, rs, category, labels) ==
    [detectParagraphs |-> detect, paragraphSilenceThreshold |-> threshold,
     textRulesEnabled |-> enabled, textRules |-> rs,
     textRuleCategory |-> category, speakerLabels |-> labels]

NoOptions == Options(FALSE, 0, FALSE, <<>>, "all", <<>>)

IdleRules ==
    /\ text = <<>>
    /\ rules = <<>>
    /\ result = NoResult
    /\ prevResult = NoResult
    /\ rpc = "idle"

\* the threshold of "no call before"
NoThreshold == 0 - 1

IdlePara ==
    /\ segments = <<>>
    /\ silenceThreshold = 0
    /\ paragraphs = <<>>
    /\ prevThreshold = NoThreshold
    /\ prevParagraphs = <<>>
    /\ ppc = "idle"

IdlePost ==
    /\ rawSegments = <<>>
    /\ rawParagraphs = <<>>
    /\ options = NoOptions
    /\ outSegments = <<>>
    /\ outParagraphs = <<>>
    /\ pristine = [segments |-> <<>>, paragraphs |-> <<>>]
    /\ qpc = "idle"

NoAnchor == [href |-> "", download |-> <<>>]

NoDelivery == [name |-> <<>>, type |-> "", body |-> <<>>]

IdleExport ==
    /\ expSegments = <<>>
    /\ expParagraphs = <<>>
    /\ viewMode = "line"
    /\ format = "srt"
    /\ filename = <<>>
    /\ content = <<>>
    /\ mimeType = ""
    /\ ext = <<>>
    /\ url = "none"
    /\ anchor = NoAnchor
    /\ delivered = NoDelivery
    /\ epc = "idle"

\* searchQuery?: string, absent
NoQuery == [present |-> FALSE, value |-> <<>>]

IdleRender ==
    /\ rtext = <<>>
    /\ query = NoQuery
    /\ spans = <<>>
    /\ redactionLastIndex = 0
    /\ vpc = "idle"
    /\ hspans = <<>>
    /\ hpc = "idle"

\* ------------------------------------------------------------------------
\* Inputs of the rule engine
\* ------------------------------------------------------------------------
Texts == SeqsUpTo(TextAlphabet, MaxTextLen)

FindAlphabet == {"a", "."}
Replacements == {<<"A">>}
FlagStrings == {<<>>, <<"g">>, <<"i">>, <<"x">>}

\* every enabled single rule over the small alphabets
RuleFamily ==
    {TextRule(f, r, x, fl, "replace", TRUE) :
        f \in SeqsUpTo(FindAlphabet, MaxFindLen) \ {<<>>},
        r \in Replacements, x \in BOOLEAN, fl \in FlagStrings}

\* rules that are combined into lists: a filler, a redaction, a malformed
\* source, a disabled rule, an empty find
RuleCatalogue ==
    { TextRule(<<"a">>, <<>>, FALSE, <<"g", "i">>, "filler", TRUE),
      TextRule(<<"A">>, <<",">>, TRUE, <<"g">>, "pii", TRUE),
      TextRule(<<"(">>, <<"A">>, TRUE, <<"g">>, "pii", TRUE),
      TextRule(<<"a">>, <<"A">>, TRUE, <<"g">>, "replace", FALSE),
      TextRule(<<>>, <<"A">>, TRUE, <<"g">>, "replace", TRUE) }

RuleLists == SeqsUpTo(RuleCatalogue, MaxRules)

\* rules that delete "a", written with no flags and with "g" alone
BareFlagRules ==
    {TextRule(<<"a">>, <<>>, x, fl, "filler", TRUE) :
        x \in BOOLEAN, fl \in {<<>>, <<"g">>}}

\* ------------------------------------------------------------------------
\* Specification of the rule engine: a caller applies a rule list to a
\* text and may feed the returned text back through the same rules.
\* ------------------------------------------------------------------------
InitRules ==
    /\ IdlePara
    /\ IdlePost
    /\ IdleExport
    /\ IdleRender
    /\ \/ text \in Texts /\ rules \in {<<r>> : r \in RuleFamily \cup BareFlagRules}
       \/ text \in SeqsUpTo(TextAlphabet, MaxListTextLen) /\ rules \in RuleLists
    /\ result = NoResult
    /\ prevResult = NoResult
    /\ rpc = "ready"

\* result = applyTextRules(text, rules)
ApplyRules ==
    /\ rpc = "ready"
    /\ result' = applyTextRules(text, rules)
    /\ prevResult' = result
    /\ rpc' = "done"
    /\ UNCHANGED <<text, rules>>
    /\ UNCHANGED <<varsPara, varsPost, varsExport, varsRender>>

\* result = applyTextRules(result, rules): the output is processed again
ReapplyRules ==
    /\ rpc = "done"
    /\ ~result.threw
    /\ text' = result.value
    /\ prevResult' = result
    /\ result' = applyTextRules(result.value, rules)
    /\ rpc' = "again"
    /\ UNCHANGED rules
    /\ UNCHANGED <<varsPara, varsPost, varsExport, varsRender>>

NextRules == ApplyRules \/ ReapplyRules

SpecRules == InitRules /\ [][NextRules]_vars

\* ------------------------------------------------------------------------
\* Inputs of the paragraph grouper
\* ------------------------------------------------------------------------
Speakers == {"SPEAKER_00", "SPEAKER_01"}
OptSpeakers == Speakers \cup {Undefined}
Times == 0..MaxTime
Thresholds == 0..MaxThreshold
SegmentTexts == {<<"a">>, <<" ", "a", " ">>, <<>>}

\* diarized segments of every timing (end < start and overlaps included)
TimedSegments ==
    {Segment(st, en, <<"a">>, sp) : st \in Times, en \in Times, sp \in Speakers}

\* back-to-back segments of every text, with and without a speaker
TextSegments ==
    {Segment(0, 0, tx, sp) : tx \in SegmentTexts, sp \in OptSpeakers}

SegmentLists ==
    SeqsUpTo(TimedSegments, MaxSegs) \cup SeqsUpTo(TextSegments, MaxTextSegs)

\* ------------------------------------------------------------------------
\* Specification of the paragraph grouper: the segment list is grouped, and
\* grouped again whenever the silence threshold changes.
\* ------------------------------------------------------------------------
InitPara ==
    /\ IdleRules
    /\ IdlePost
    /\ IdleExport
    /\ IdleRender
    /\ segments \in SegmentLists
    /\ silenceThreshold \in Thresholds
    /\ paragraphs = <<>>
    /\ prevThreshold = NoThreshold
    /\ prevParagraphs = <<>>
    /\ ppc = "ready"

\* paragraphs = detectParagraphsClient(segments, silenceThreshold)
Detect ==
    /\ ppc = "ready"
    /\ paragraphs' = detectParagraphsClient(segments, silenceThreshold)
    /\ ppc' = "done"
    /\ UNCHANGED <<segments, silenceThreshold, prevThreshold, prevParagraphs>>
    /\ UNCHANGED <<varsRules, varsPost, varsExport, varsRender>>

\* the threshold changes and the same segments are grouped again
Redetect(t) ==
    /\ ppc = "done"
    /\ t # silenceThreshold
    /\ silenceThreshold' = t
    /\ paragraphs' = detectParagraphsClient(segments, t)
    /\ prevThreshold' = silenceThreshold
    /\ prevParagraphs' = paragraphs
    /\ UNCHANGED <<segments, ppc>>
    /\ UNCHANGED <<varsRules, varsPost, varsExport, varsRender>>

NextPara == Detect \/ \E t \in Thresholds : Redetect(t)

SpecPara == InitPara /\ [][NextPara]_vars

\* ------------------------------------------------------------------------
\* Inputs of applyPostProcessing
\* ------------------------------------------------------------------------
PostDeltas == {1, 2}        \* start of a segment minus start of the one before

\* what one segment of the response can be: its distance from the segment
\* before, its text and its speaker (absent without diarization)
SegmentChoices ==
    { [delta |-> 1, text |-> <<"a">>, speaker |-> "SPEAKER_00"],
      [delta |-> 2, text |-> <<"a">>, speaker |-> "SPEAKER_00"],
      [delta |-> 1, text |-> <<"A", " ">>, speaker |-> "SPEAKER_01"],
      [delta |-> 2, text |-> <<"a">>, speaker |-> "SPEAKER_01"],
      [delta |-> 1, text |-> <<"a">>, speaker |-> Undefined] }

RECURSIVE StartOf(_, _)
StartOf(cs, k) == IF k = 0 THEN 0 - 1 ELSE StartOf(cs, k - 1) + cs[k].delta

\* segments ordered by start time, each one tick long
SegmentsOf(cs) ==
    [k \in 1..Len(cs) |->
        Segment(StartOf(cs, k), StartOf(cs, k) + 1, cs[k].text, cs[k].speaker)]

PostSegmentLists == {SegmentsOf(cs) : cs \in SeqsUpTo(SegmentChoices, MaxPostSegs)}

PostThresholds == {0, MaxThreshold}

\* the annotations the backend attaches to its k-th paragraph
EntityCountsOf(k) == IF k = 1 THEN "entities1" ELSE IF k = 2 THEN "entities2" ELSE "entities3"
SentimentOf(k) == IF k % 2 = 1 THEN "positive" ELSE Undefined

\* the paragraphs of the API response: the backend's grouping of the same
\* segments under the threshold of the request, annotated
BackendParagraphs(segs, threshold) ==
    LET ps == detectParagraphsClient(segs, threshold) IN
    [k \in 1..Len(ps) |->
        [speaker |-> ps[k].speaker, start |-> ps[k].start, end |-> ps[k].end,
         text |-> ps[k].text, segment_count |-> ps[k].segment_count,
         entity_counts |-> EntityCountsOf(k), sentiment |-> SentimentOf(k)]]

\* the label editor stores a label under its speaker and deletes the entry
\* when the field is emptied: a stored label is never the empty string
LabelMaps ==
    { <<>>,
      [sp \in {"SPEAKER_00"} |-> "Alice"],
      [sp \in {"SPEAKER_00", "SPEAKER_01"} |-> "Alice"],
      [sp \in {"SPEAKER_00", "SPEAKER_01"} |->
          IF sp = "SPEAKER_00" THEN "Alice" ELSE "Bob"] }

FillerRule == TextRule(<<"a">>, <<>>, FALSE, <<"g", "i">>, "filler", TRUE)
RedactRule == TextRule(<<"A">>, <<",">>, TRUE, <<"g">>, "pii", TRUE)
BrokenRule == TextRule(<<"(">>, <<"A">>, TRUE, <<"g">>, "pii", TRUE)
DisabledRule == TextRule(<<"a">>, <<"A">>, TRUE, <<"g">>, "replace", FALSE)
EmptyFindRule == TextRule(<<>>, <<"A">>, TRUE, <<"g">>, "replace", TRUE)

ConfiguredRules ==
    <<FillerRule, DisabledRule, RedactRule, EmptyFindRule, BrokenRule>>

PostRuleLists == {<<>>, ConfiguredRules, <<RedactRule, FillerRule>>}

Categories == {"all", "filler", "replace", "pii"}

\* the paragraph settings: detection off, or on with a threshold
DetectChoices ==
    {[on |-> FALSE, t |-> 0]} \cup {[on |-> TRUE, t |-> t] : t \in PostThresholds}

\* the rule settings: the master switch off, or on with a list and a category
RuleChoices ==
    {[on |-> FALSE, rs |-> ConfiguredRules, cat |-> "all"]}
    \cup {[on |-> TRUE, rs |-> rs, cat |-> c] : rs \in PostRuleLists, c \in Categories}

\* DEFAULT_OPTIONS: detection on, rules on with an empty list, no labels
DefaultDetect == [on |-> TRUE, t |-> MaxThreshold]
DefaultRules == [on |-> TRUE, rs |-> <<>>, cat |-> "all"]
DefaultLabels == <<>>

BothAlice == [sp \in {"SPEAKER_00", "SPEAKER_01"} |-> "Alice"]

\* the settings of a call: the defaults with one group of settings changed,
\* and the configured rules together with labels or without detection
PostOptions ==
    {Options(d.on, d.t, DefaultRules.on, DefaultRules.rs, DefaultRules.cat, DefaultLabels) :
        d \in DetectChoices}
    \cup {Options(DefaultDetect.on, DefaultDetect.t, r.on, r.rs, r.cat, DefaultLabels) :
        r \in RuleChoices}
    \cup {Options(DefaultDetect.on, DefaultDetect.t, DefaultRules.on, DefaultRules.rs,
                  DefaultRules.cat, lm) : lm \in LabelMaps}
    \cup {Options(d.on, d.t, TRUE, ConfiguredRules, "all", BothAlice) : d \in DetectChoices}
    \cup {Options(FALSE, 0, TRUE, ConfiguredRules, c, DefaultLabels) : c \in {"filler", "pii"}}

\* ------------------------------------------------------------------------
\* Specification of the orchestrator: the API response is post-processed,
\* and post-processed again whenever the user changes a setting.
\* ------------------------------------------------------------------------
InitPost ==
    /\ IdleRules
    /\ IdlePara
    /\ IdleExport
    /\ IdleRender
    /\ rawSegments \in PostSegmentLists
    /\ rawParagraphs \in {<<>>} \cup {BackendParagraphs(rawSegments, t) : t \in PostThresholds}
    /\ pristine = [segments |-> rawSegments, paragraphs |-> rawParagraphs]
    /\ options = NoOptions
    /\ outSegments = <<>>
    /\ outParagraphs = <<>>
    /\ qpc = "ready"

\* (mutant) the labels and rules are written into the received segments
PostProcessInPlace(opts) ==
    LET r == applyPostProcessing(rawSegments, rawParagraphs, opts) IN
    /\ options' = opts
    /\ outSegments' = r.segments
    /\ outParagraphs' = r.paragraphs
    /\ qpc' = "done"
    /\ rawSegments' = [k \in 1..Len(rawSegments) |->
                          [rawSegments[k] EXCEPT !.speaker = r.segments[k].speaker,
                                                 !.text = r.segments[k].text]]
    /\ UNCHANGED <<rawParagraphs, pristine>>
    /\ UNCHANGED <<varsRules, varsPara, varsExport, varsRender>>

\* { segments, paragraphs } = applyPostProcessing(rawSegments, rawParagraphs, opts);
\* the call works on copies and leaves the received objects as they were
PostProcess(opts) ==
    LET r == applyPostProcessing(rawSegments, rawParagraphs, opts) IN
    /\ options' = opts
    /\ outSegments' = r.segments
    /\ outParagraphs' = r.paragraphs
    /\ qpc' = "done"
    /\ UNCHANGED <<rawSegments, rawParagraphs, pristine>>
    /\ UNCHANGED <<varsRules, varsPara, varsExport, varsRender>>

NextPost == \E opts \in PostOptions : PostProcess(opts)

SpecPost == InitPost /\ [][NextPost]_vars

\* ------------------------------------------------------------------------
\* Specification of re-grouping: the response is post-processed with
\* paragraph detection on, and the returned paragraphs are then handed
\* back as the previous paragraph set of a second call with the same
\* segments and options.
\* ------------------------------------------------------------------------
RegroupSegmentLists == {SegmentsOf(cs) : cs \in SeqsUpTo(SegmentChoices, MaxRegroupSegs)}

\* detection on, with and without labels and rules
RegroupOptions ==
    {Options(TRUE, t, TRUE, rs, "all", lm) :
        t \in PostThresholds, rs \in {<<>>, ConfiguredRules}, lm \in {DefaultLabels, BothAlice}}

InitRegroup ==
    /\ IdleRules
    /\ IdlePara
    /\ IdleExport
    /\ IdleRender
    /\ rawSegments \in RegroupSegmentLists
    /\ rawParagraphs \in {<<>>} \cup {BackendParagraphs(rawSegments, t) : t \in PostThresholds}
    /\ pristine = [segments |-> rawSegments, paragraphs |-> rawParagraphs]
    /\ options = NoOptions
    /\ outSegments = <<>>
    /\ outParagraphs = <<>>
    /\ qpc = "ready"

\* the first call
FirstPass(opts) ==
    /\ qpc = "ready"
    /\ PostProcess(opts)

\* applyPostProcessing(rawSegments, <the paragraphs just returned>, options)
FeedBack ==
    /\ qpc = "done"
    /\ LET r == applyPostProcessing(rawSegments, outParagraphs, options) IN
          /\ outSegments' = r.segments
          /\ outParagraphs' = r.paragraphs
    /\ rawParagraphs' = outParagraphs
    /\ qpc' = "fed"
    /\ UNCHANGED <<rawSegments, options, pristine>>
    /\ UNCHANGED <<varsRules, varsPara, varsExport, varsRender>>

NextRegroup ==
    \/ \E opts \in RegroupOptions : FirstPass(opts)
    \/ FeedBack

SpecRegroup == InitRegroup /\ [][NextRegroup]_vars

\* ------------------------------------------------------------------------
\* Inputs of exportTranscript
\* ------------------------------------------------------------------------
ExportSpeakers == {"A", "B"}

\* what one exported segment can be
ExportUnits == [text : {<<"a">>, <<" ", "a">>}, speaker : ExportSpeakers \cup {Undefined}]

ExportStride == 130      \* ticks from the start of a segment to the next start
ExportLength == 100      \* ticks from the start of a segment to its end

ExportSegmentsOf(us) ==
    [k \in 1..Len(us) |->
        Segment(ExportStride * (k - 1), ExportStride * (k - 1) + ExportLength,
                us[k].text, us[k].speaker)]

ExportSegmentLists == {ExportSegmentsOf(us) : us \in SeqsUpTo(ExportUnits, MaxExportSegs)}

\* the paragraphs shown with the segments: consecutive segments of one
\* speaker, every other paragraph annotated
ExportParagraphsOf(segs) ==
    LET ps == detectParagraphsClient(segs, ExportStride - ExportLength) IN
    [k \in 1..Len(ps) |->
        [speaker |-> ps[k].speaker, start |-> ps[k].start, end |-> ps[k].end,
         text |-> ps[k].text, segment_count |-> ps[k].segment_count,
         entity_counts |-> IF k % 2 = 1 THEN "e" ELSE Undefined,
         sentiment |-> IF k = 1 THEN "p" ELSE Undefined]]

ViewModes == {"line", "para"}
ExportFormats == {"srt", "vtt", "txt", "json"}

NameAlphabet == {"a", "."}
Filenames == SeqsUpTo(NameAlphabet, MaxNameLen)
DefaultFilename == <<"a", ".", "a">>

\* ------------------------------------------------------------------------
\* Specification of exportTranscript: one call, statement by statement
\* ------------------------------------------------------------------------
InitExport ==
    /\ IdleRules
    /\ IdlePara
    /\ IdlePost
    /\ IdleRender
    /\ \/ /\ expSegments \in ExportSegmentLists
          /\ expParagraphs \in {<<>>, ExportParagraphsOf(expSegments)}
          /\ viewMode \in ViewModes
          /\ filename = DefaultFilename
       \/ /\ expSegments = ExportSegmentsOf(<<[text |-> <<"a">>, speaker |-> "A"]>>)
          /\ expParagraphs = <<>>
          /\ viewMode = "line"
          /\ filename \in Filenames
    /\ format \in ExportFormats
    /\ content = <<>>
    /\ mimeType = ""
    /\ ext = <<>>
    /\ url = "none"
    /\ anchor = NoAnchor
    /\ delivered = NoDelivery
    /\ epc = "ready"

\* the two switch statements of exportTranscript
Serialize ==
    /\ epc = "ready"
    /\ LET r == Serialized(expSegments, expParagraphs, viewMode, format) IN
          /\ content' = r.content
          /\ mimeType' = r.mimeType
          /\ ext' = r.ext
    /\ epc' = "serialized"
    /\ UNCHANGED <<expSegments, expParagraphs, viewMode, format, filename,
                   url, anchor, delivered>>
    /\ UNCHANGED <<varsRules, varsPara, varsPost, varsRender>>

\* const blob = new Blob(...); const url = URL.createObjectURL(blob);
CreateObjectURL ==
    /\ epc = "serialized"
    /\ url' = "live"
    /\ epc' = "created"
    /\ UNCHANGED <<expSegments, expParagraphs, viewMode, format, filename,
                   content, mimeType, ext, anchor, delivered>>
    /\ UNCHANGED <<varsRules, varsPara, varsPost, varsRender>>

\* const a = document.createElement("a"); a.href = url; a.download = ...;
PrepareAnchor ==
    /\ epc = "created"
    /\ anchor' = [href |-> "blob", download |-> DownloadName(filename, ext)]
    /\ epc' = "prepared"
    /\ UNCHANGED <<expSegments, expParagraphs, viewMode, format, filename,
                   content, mimeType, ext, url, delivered>>
    /\ UNCHANGED <<varsRules, varsPara, varsPost, varsRender>>

\* a.click() returns: the browser has been handed the download
ClickReturns ==
    /\ epc = "prepared"
    /\ delivered' = [name |-> anchor.download, type |-> mimeType, body |-> content]
    /\ epc' = "clicked"
    /\ UNCHANGED <<expSegments, expParagraphs, viewMode, format, filename,
                   content, mimeType, ext, url, anchor>>
    /\ UNCHANGED <<varsRules, varsPara, varsPost, varsRender>>

\* a.click() throws: the exception leaves exportTranscript, which has no
\* handler around the call
ClickThrows ==
    /\ epc = "prepared"
    /\ epc' = "failed"
    /\ UNCHANGED <<expSegments, expParagraphs, viewMode, format, filename,
                   content, mimeType, ext, url, anchor, delivered>>
    /\ UNCHANGED <<varsRules, varsPara, varsPost, varsRender>>

\* URL.revokeObjectURL(url); and the call returns
RevokeObjectURL ==
    /\ epc = "clicked"
    /\ url' = "revoked"
    /\ epc' = "done"
    /\ UNCHANGED <<expSegments, expParagraphs, viewMode, format, filename,
                   content, mimeType, ext, anchor, delivered>>
    /\ UNCHANGED <<varsRules, varsPara, varsPost, varsRender>>

NextExport ==
    \/ Serialize
    \/ CreateObjectURL
    \/ PrepareAnchor
    \/ ClickReturns
    \/ ClickThrows
    \/ RevokeObjectURL

SpecExport == InitExport /\ [][NextExport]_vars

\* ------------------------------------------------------------------------
\* Inputs of renderText
\* ------------------------------------------------------------------------
\* a rule-transformed text is made of markers, letters and unclosed brackets
RenderPieces ==
    { <<"[", "A", "]">>, <<"[", "A", " ", "0", "]">>, <<"a">>, <<"A">>, <<"[">> }

RenderTexts == {Concat(ps) : ps \in SeqsUpTo(RenderPieces, MaxRenderPieces)}

QueryAlphabet == {"a", "["}

\* the search box: no query, or what has been typed (possibly nothing)
Queries ==
    {NoQuery} \cup {[present |-> TRUE, value |-> q] : q \in SeqsUpTo(QueryAlphabet, MaxQueryLen)}

\* ------------------------------------------------------------------------
\* Specification of renderText: a text is rendered, and rendered again
\* whenever the search query changes. REDACTION_PATTERN is a module-level
\* object: its lastIndex is 0 when the module is loaded and survives from
\* one call to the next.
\* ------------------------------------------------------------------------
InitRender ==
    /\ IdleRules
    /\ IdlePara
    /\ IdlePost
    /\ IdleExport
    /\ rtext \in RenderTexts
    /\ query \in Queries
    /\ spans = <<>>
    /\ redactionLastIndex = 0
    /\ vpc = "ready"
    /\ hspans = <<>>
    /\ hpc = "idle"

\* renderText(rtext, query)
Render ==
    /\ vpc = "ready"
    /\ LET r == renderText(rtext, query, redactionLastIndex) IN
          /\ spans' = r.spans
          /\ redactionLastIndex' = r.lastIndex
    /\ vpc' = "done"
    /\ UNCHANGED <<rtext, query, hspans, hpc>>
    /\ UNCHANGED <<varsRules, varsPara, varsPost, varsExport>>

\* the query changes and the same text is rendered again
RenderAgain(q) ==
    /\ vpc = "done"
    /\ q # query
    /\ query' = q
    /\ LET r == renderText(rtext, q, redactionLastIndex) IN
          /\ spans' = r.spans
          /\ redactionLastIndex' = r.lastIndex
    /\ UNCHANGED <<rtext, vpc, hspans, hpc>>
    /\ UNCHANGED <<varsRules, varsPara, varsPost, varsExport>>

NextRender ==
    \/ Render
    \/ \E q \in Queries : RenderAgain(q)

SpecRender == InitRender /\ [][NextRender]_vars

\* ------------------------------------------------------------------------
\* Specification of the two views: the same text and query are shown by
\* the segment view (renderText) and by the paragraph view (highlightText),
\* in either order.
\* ------------------------------------------------------------------------
InitViews ==
    /\ IdleRules
    /\ IdlePara
    /\ IdlePost
    /\ IdleExport
    /\ rtext \in RenderTexts
    /\ query \in Queries
    /\ spans = <<>>
    /\ redactionLastIndex = 0
    /\ vpc = "ready"
    /\ hspans = <<>>
    /\ hpc = "ready"

\* highlightText(para.text, searchQuery)
Highlight ==
    /\ hpc = "ready"
    /\ hspans' = highlightText(rtext, query)
    /\ hpc' = "done"
    /\ UNCHANGED <<rtext, query, spans, redactionLastIndex, vpc>>
    /\ UNCHANGED <<varsRules, varsPara, varsPost, varsExport>>

NextViews == Render \/ Highlight

SpecViews == InitViews /\ [][NextViews]_vars

\* ========================================================================
\* Properties of the paragraph grouper (checked under SpecPara)
\* ========================================================================
RECURSIVE SumCounts(_)
SumCounts(ps) == IF ps = <<>> THEN 0 ELSE Head(ps).segment_count + SumCounts(Tail(ps))

\* segment i is the first segment of one of the paragraphs ps
StartsParagraph(ps, i) ==
    \E k \in 1..Len(ps) : SumCounts(SubSeq(ps, 1, k - 1)) + 1 = i

\* segments i-1 and i are in the same paragraph
SameParagraph(ps, i) == ~StartsParagraph(ps, i)

\* C1: the segment_count values of the returned paragraphs sum to the
\* number of segments, and every paragraph has segment_count >= 1.
C1_CountsPartitionSegments ==
    ppc = "done" =>
        /\ SumCounts(paragraphs) = Len(segments)
        /\ \A k \in 1..Len(paragraphs) : paragraphs[k].segment_count >= 1

\* C1 witness: three segments grouped into a paragraph of two and one of one
C1_MixedGrouping ==
    /\ ppc = "done"
    /\ Len(segments) = 3
    /\ Len(paragraphs) = 2
    /\ paragraphs[1].segment_count = 2

\* C2: two consecutive segments whose speakers differ are never placed in
\* the same paragraph, whatever the threshold and the gap.
C2_SpeakerChangeBreaks ==
    ppc = "done" =>
        \A i \in 2..Len(segments) :
            segments[i].speaker # segments[i - 1].speaker
                => ~SameParagraph(paragraphs, i)

\* C2 witness: overlapping segments (negative gap) and back-to-back segments
\* (zero gap) of different speakers, all split
C2_OverlappingSpeakersSplit ==
    /\ ppc = "done"
    /\ Len(segments) = 3
    /\ segments[2].speaker # segments[1].speaker
    /\ segments[2].start - segments[1].end < 0
    /\ segments[3].speaker # segments[2].speaker
    /\ segments[3].start - segments[2].end = 0
    /\ Len(paragraphs) = 3

\* C3: two consecutive segments of the same speaker are split exactly when
\* the start of the second minus the end of the open paragraph (the end of
\* the segment before it) is strictly greater than the threshold.
C3_SplitIffGapExceedsThreshold ==
    ppc = "done" =>
        \A i \in 2..Len(segments) :
            segments[i].speaker = segments[i - 1].speaker
                => (StartsParagraph(paragraphs, i)
                      <=> segments[i].start - segments[i - 1].end > silenceThreshold)

\* C3 witness: a positive threshold, a segment with end < start, a gap
\* equal to the threshold and then a negative gap, all in one paragraph
C3_ThresholdGapAndNegativeGapMerge ==
    /\ ppc = "done"
    /\ silenceThreshold > 0
    /\ Len(segments) = 3
    /\ segments[1].end < segments[1].start
    /\ segments[2].start - segments[1].end = silenceThreshold
    /\ segments[3].start - segments[2].end < 0
    /\ Len(paragraphs) = 1
    /\ paragraphs[1].segment_count = 3

\* ========================================================================
\* Properties of the rule engine (checked under SpecRules)
\* ========================================================================
Called == rpc # "ready"

\* what one rule does to the running text according to the specification:
\* an enabled rule with a non-empty find replaces all the matches of its
\* pattern (compiled with the rule's own flags), any other rule does nothing
RuleEffect(t, rule) ==
    LET re == NewRegExp(PatternSource(rule), EffectiveFlags(rule)) IN
    IF rule.enabled /\ rule.find # <<>> /\ ~re.threw
    THEN ReplaceAllFrom(t, re, rule.replace, 1)
    ELSE t

RECURSIVE FoldRules(_, _)
FoldRules(t, rs) ==
    IF rs = <<>> THEN t ELSE FoldRules(RuleEffect(t, Head(rs)), Tail(rs))

\* C5: applyTextRules(text, rules) is the cleanup pass applied to the fold
\* of the rules over the text in list order, each enabled rule with a
\* non-empty find replacing all its matches in the running text and every
\* other rule leaving it unchanged.
C5_FoldInListOrder ==
    Called => result = [threw |-> FALSE, value |-> Cleanup(FoldRules(text, rules))]

\* C5 witness: a two-rule list whose reversal gives another result
C5_OrderMatters ==
    /\ rpc = "done"
    /\ Len(rules) = 2
    /\ rules[1].enabled /\ rules[2].enabled
    /\ applyTextRules(text, <<rules[2], rules[1]>>) # result

\* a rule whose pattern source or flags do not compile
Malformed(rule) ==
    \/ ~ValidFlags(EffectiveFlags(rule))
    \/ ~ParsePattern(PatternSource(rule), 1, 0).ok

WellFormedOnly(rs) == SelectSeq(rs, LAMBDA r : ~Malformed(r))

\* C6: a malformed rule never makes applyTextRules fail, and the result is
\* the result for the same list with the malformed rules removed.
C6_MalformedRuleSkipped ==
    Called => /\ ~result.threw
              /\ result = applyTextRules(text, WellFormedOnly(rules))

\* C6 witness: a malformed enabled rule between two rules that both change
\* the running text
C6_MalformedInTheMiddle ==
    /\ rpc = "done"
    /\ Len(rules) = 3
    /\ rules[2].enabled /\ rules[2].find # <<>> /\ Malformed(rules[2])
    /\ RuleEffect(text, rules[1]) # text
    /\ RuleEffect(RuleEffect(text, rules[1]), rules[3]) # RuleEffect(text, rules[1])
    /\ result.value # Cleanup(text)

\* the same rule with the global modifier written out in its flags
WithGlobal(rule) ==
    IF rule.flags = <<>> \/ HasFlag(rule.flags, "g") THEN rule
    ELSE [rule EXCEPT !.flags = <<"g">> \o rule.flags]

AllWithGlobal(rs) == [k \in 1..Len(rs) |-> WithGlobal(rs[k])]

OccursAt(t, rule, p) ==
    /\ p + Len(rule.find) - 1 <= Len(t)
    /\ \A k \in 1..Len(rule.find) :
         CharMatches(t[p + k - 1], rule.find[k], HasFlag(EffectiveFlags(rule), "i"))

\* the occurrence at p has no word character directly before or after it
WholeWordAt(t, rule, p) ==
    /\ OccursAt(t, rule, p)
    /\ ~(p > 1 /\ IsWordChar(t[p - 1]))
    /\ ~(p + Len(rule.find) <= Len(t) /\ IsWordChar(t[p + Len(rule.find)]))

\* t with every whole-word occurrence of the find replaced, left to right
RECURSIVE ReplaceWholeWords(_, _, _)
ReplaceWholeWords(t, rule, p) ==
    IF p > Len(t) THEN <<>>
    ELSE IF WholeWordAt(t, rule, p)
         THEN rule.replace \o ReplaceWholeWords(t, rule, p + Len(rule.find))
         ELSE <<t[p]>> \o ReplaceWholeWords(t, rule, p + 1)

LiteralRuleCall ==
    /\ rpc = "done"
    /\ Len(rules) = 1
    /\ rules[1].enabled /\ ~rules[1].isRegex /\ rules[1].find # <<>>
    /\ ValidFlags(EffectiveFlags(rules[1]))

\* C8: a literal rule replaces exactly the occurrences of its find text
\* that stand as a whole word (no word character directly before or after),
\* the characters of find being matched literally.
C8_LiteralWholeWordOnly ==
    LiteralRuleCall =>
        result.value = Cleanup(ReplaceWholeWords(text, rules[1], 1))

\* no enabled rule of rs has a match in t
NoRuleMatches(t, rs) ==
    \A k \in 1..Len(rs) :
        LET re == NewRegExp(PatternSource(rs[k]), SafeFlags(EffectiveFlags(rs[k]))) IN
        (rs[k].enabled /\ rs[k].find # <<>> /\ ~re.threw) => MatchPositions(t, re) = {}

HasSubstring(t, sub) ==
    \E p \in 1..(Len(t) - Len(sub) + 1) : SubSeq(t, p, p + Len(sub) - 1) = sub

\* no two spaces in a row, no comma / whitespace / comma, no outer whitespace
CleanText(t) ==
    /\ ~HasSubstring(t, <<" ", " ">>)
    /\ ~\E p \in 1..Len(t) :
          /\ t[p] = ","
          /\ RunEnd(t, p + 1, WhiteSpace) + 1 <= Len(t)
          /\ t[RunEnd(t, p + 1, WhiteSpace) + 1] = ","
    /\ t = <<>> \/ (t[1] \notin WhiteSpace /\ t[Len(t)] \notin WhiteSpace)

\* C9: the cleanup pass is idempotent: when no enabled rule matches the
\* returned text, applying the rules to it again returns it unchanged, and
\* the returned text is clean.
C9_CleanupIdempotent ==
    (rpc = "again" /\ NoRuleMatches(prevResult.value, rules))
        => result = prevResult /\ CleanText(prevResult.value)

\* ========================================================================
\* Properties of the orchestrator (checked under SpecPost)
\* ========================================================================
Processed == qpc = "done"

Returned == [segments |-> outSegments, paragraphs |-> outParagraphs]

\* start, end and size of every paragraph of a list
Grouping(ps) ==
    [k \in 1..Len(ps) |->
        [start |-> ps[k].start, end |-> ps[k].end, segment_count |-> ps[k].segment_count]]

InCategory(rule, category) == category = "all" \/ rule.category = category

\* the configured rules that are enabled, have a non-empty find and belong
\* to the active category, in their configured order
Selected(rs, category) ==
    SelectSeq(rs, LAMBDA r : r.enabled /\ r.find # <<>> /\ InCategory(r, category))

\* the text the rules are to be applied to: a segment's own text, and the
\* text of a paragraph as detected or as received
TextsBeforeRules ==
    [segments |-> [k \in 1..Len(rawSegments) |-> rawSegments[k].text],
     paragraphs |->
        LET before == StepParagraphs(rawSegments, rawParagraphs, options)
        IN [k \in 1..Len(before) |-> before[k].text]]

TextsAfterRules ==
    [segments |-> [k \in 1..Len(outSegments) |-> outSegments[k].text],
     paragraphs |-> [k \in 1..Len(outParagraphs) |-> outParagraphs[k].text]]

\* the engine run on every text of a list
EngineOnEach(ts, rs) == [k \in 1..Len(ts) |-> applyTextRules(ts[k], rs).value]

\* C10: applyPostProcessing applies to segment and paragraph text exactly
\* the configured rules that are enabled, have a non-empty find and whose
\* category is textRuleCategory (all categories when it is "all"), in
\* their configured order (no text is touched when there is no such rule);
\* removing the rules of another category from the configuration changes
\* nothing; and with textRulesEnabled false every output text is the
\* corresponding input text.
C10_OnlyActiveCategoryRulesApplied ==
    Processed =>
        LET sel == Selected(options.textRules, options.textRuleCategory)
            narrowed == [options EXCEPT
                            !.textRules = SelectSeq(@, LAMBDA r :
                                            InCategory(r, options.textRuleCategory))]
        IN /\ (options.textRulesEnabled /\ sel # <<>>) =>
                  /\ TextsAfterRules.segments = EngineOnEach(TextsBeforeRules.segments, sel)
                  /\ TextsAfterRules.paragraphs = EngineOnEach(TextsBeforeRules.paragraphs, sel)
           /\ (options.textRulesEnabled /\ sel = <<>>) => TextsAfterRules = TextsBeforeRules
           /\ Returned = applyPostProcessing(rawSegments, rawParagraphs, narrowed)
           /\ ~options.textRulesEnabled => TextsAfterRules = TextsBeforeRules

\* C10 witness: with the category "pii" active, the redaction rule rewrites
\* one segment while a segment that the configured filler rule would empty
\* is returned untouched
C10_FillerRuleOutsidePiiCategory ==
    /\ Processed
    /\ options.textRulesEnabled
    /\ options.textRuleCategory = "pii"
    /\ options.textRules = ConfiguredRules
    /\ options.detectParagraphs
    /\ \E k \in 1..Len(rawSegments) : outSegments[k].text # rawSegments[k].text
    /\ \E k \in 1..Len(rawSegments) :
          /\ outSegments[k].text = rawSegments[k].text
          /\ applyTextRules(rawSegments[k].text, <<FillerRule>>).value # rawSegments[k].text
    /\ \E k \in 1..Len(outParagraphs) :
          outParagraphs[k].text # TextsBeforeRules.paragraphs[k]

\* paragraphs were recomputed by the last call
Recomputed == Processed /\ options.detectParagraphs /\ Len(rawSegments) > 0

\* the position, in the segment list, of the first segment of the k-th
\* paragraph of ps
RECURSIVE FirstSegmentOf(_, _)
FirstSegmentOf(ps, k) ==
    IF k = 1 THEN 1 ELSE FirstSegmentOf(ps, k - 1) + ps[k - 1].segment_count

\* the internal speaker identifier of the record the k-th returned
\* paragraph comes from: its first segment when paragraphs are recomputed,
\* the k-th received paragraph otherwise
SourceSpeaker(k) ==
    IF Recomputed THEN rawSegments[FirstSegmentOf(outParagraphs, k)].speaker
    ELSE rawParagraphs[k].speaker

\* the speaker to display for an internal identifier
Shown(id) ==
    IF id \in DOMAIN options.speakerLabels THEN options.speakerLabels[id] ELSE id

\* C11: for every segment and paragraph returned by applyPostProcessing,
\* originalSpeaker is the untouched internal speaker identifier of the
\* source record, and speaker is the label the map gives for that
\* identifier when the map has an entry for it, the identifier otherwise.
C11_SpeakerAndOriginalSpeaker ==
    Processed =>
        /\ Len(outSegments) = Len(rawSegments)
        /\ \A k \in 1..Len(outSegments) :
              /\ outSegments[k].originalSpeaker = rawSegments[k].speaker
              /\ outSegments[k].speaker = Shown(rawSegments[k].speaker)
        /\ \A k \in 1..Len(outParagraphs) :
              /\ outParagraphs[k].originalSpeaker = SourceSpeaker(k)
              /\ outParagraphs[k].speaker = Shown(SourceSpeaker(k))

\* C11 witness: a map with an entry for one speaker only; a segment and a
\* paragraph of that speaker show the label and keep the identifier, a
\* segment of the other speaker and a segment without speaker show what
\* they had
C11_OneSpeakerRelabeled ==
    /\ Recomputed
    /\ DOMAIN options.speakerLabels = {"SPEAKER_00"}
    /\ \E k \in 1..Len(outSegments) :
          /\ outSegments[k].speaker = "Alice"
          /\ outSegments[k].originalSpeaker = "SPEAKER_00"
    /\ \E k \in 1..Len(outSegments) :
          outSegments[k].speaker \in {"SPEAKER_01", Undefined}
    /\ \E k \in 1..Len(outParagraphs) :
          /\ outParagraphs[k].speaker = "Alice"
          /\ outParagraphs[k].originalSpeaker = "SPEAKER_00"

\* what grouping decides about a paragraph
GroupingAndSpeaker(ps) ==
    [k \in 1..Len(ps) |->
        [start |-> ps[k].start, end |-> ps[k].end,
         segment_count |-> ps[k].segment_count,
         originalSpeaker |-> ps[k].originalSpeaker]]

\* C12: relabeling never affects grouping: for the same raw segments, raw
\* paragraphs and settings, the number of returned paragraphs and each
\* paragraph's start, end, segment_count and originalSpeaker are the same
\* under every speakerLabels map, including a map that gives two speakers
\* the same label.
C12_RelabelingKeepsGrouping ==
    Processed =>
        \A lm \in LabelMaps :
            GroupingAndSpeaker(
                applyPostProcessing(rawSegments, rawParagraphs,
                                    [options EXCEPT !.speakerLabels = lm]).paragraphs)
            = GroupingAndSpeaker(outParagraphs)

\* C12 witness: two speakers with the same label, in consecutive segments
\* with no silence between them, are still two paragraphs
C12_SameLabelStillTwoParagraphs ==
    /\ Recomputed
    /\ options.speakerLabels = BothAlice
    /\ \E k \in 1..(Len(outParagraphs) - 1) :
          /\ outParagraphs[k].speaker = "Alice"
          /\ outParagraphs[k + 1].speaker = "Alice"
          /\ outParagraphs[k].originalSpeaker # outParagraphs[k + 1].originalSpeaker
          /\ outParagraphs[k + 1].start - outParagraphs[k].end
                <= options.paragraphSilenceThreshold

\* the received paragraphs whose start is closer than the epsilon to t
CloseTo(t) ==
    {m \in 1..Len(rawParagraphs) : Abs(rawParagraphs[m].start - t) < CarryEpsilon}

\* C13: when paragraphs are recomputed, a recomputed paragraph carries the
\* entity_counts and sentiment of a previous paragraph exactly when the
\* start of some previous paragraph is closer than the epsilon (0.01 s) to
\* its own start, and then it carries the annotations of that previous
\* paragraph (the first one in list order when several are that close);
\* with no previous paragraph that close it carries no annotation.
C13_AnnotationsCarriedByStart ==
    Recomputed =>
        \A k \in 1..Len(outParagraphs) :
            LET close == CloseTo(outParagraphs[k].start) IN
            IF close = {}
            THEN /\ outParagraphs[k].entity_counts = Undefined
                 /\ outParagraphs[k].sentiment = Undefined
            ELSE LET m == CHOOSE m \in close : \A j \in close : m <= j IN
                 /\ outParagraphs[k].entity_counts = rawParagraphs[m].entity_counts
                 /\ outParagraphs[k].sentiment = rawParagraphs[m].sentiment

\* C13 witness: a lower threshold splits a received paragraph; the first
\* part keeps the annotations, the second part starts exactly the epsilon
\* after it and carries none
C13_SplitParagraphWithoutAnnotation ==
    /\ Recomputed
    /\ Len(rawParagraphs) >= 1
    /\ Len(outParagraphs) > Len(rawParagraphs)
    /\ outParagraphs[1].entity_counts = rawParagraphs[1].entity_counts
    /\ outParagraphs[1].sentiment = "positive"
    /\ \E k \in 2..Len(outParagraphs) :
          /\ CloseTo(outParagraphs[k].start) = {}
          /\ outParagraphs[k].start - outParagraphs[k - 1].start = CarryEpsilon
          /\ outParagraphs[k].entity_counts = Undefined

\* ========================================================================
\* Properties of the export serializer (checked under SpecExport)
\* ========================================================================
\* the switch statements have run
HasContent == epc \notin {"idle", "ready"}

ParagraphView == viewMode = "para" /\ expParagraphs # <<>>

\* the list that is rendered
Units == IF ParagraphView THEN expParagraphs ELSE expSegments

\* C14: exportTranscript renders the paragraph list exactly when viewMode
\* is "para" and the paragraph list is non-empty, and otherwise the segment
\* list with the same format; MIME type and extension depend on the format
\* only (srt: text/srt, srt; vtt: text/vtt, vtt; txt: text/plain, txt;
\* json: application/json, json).
C14_ViewAndFormatDispatch ==
    HasContent =>
        /\ content =
             IF ParagraphView
             THEN CASE format = "srt" -> paragraphsToSRT(expParagraphs)
                    [] format = "vtt" -> paragraphsToVTT(expParagraphs)
                    [] format = "txt" -> paragraphsToTXT(expParagraphs)
                    [] format = "json" -> paragraphsToJSON(expParagraphs)
             ELSE CASE format = "srt" -> segmentsToSRT(expSegments)
                    [] format = "vtt" -> segmentsToVTT(expSegments)
                    [] format = "txt" -> segmentsToTXT(expSegments)
                    [] format = "json" -> segmentsToJSON(expSegments)
        /\ mimeType = CASE format = "srt" -> "text/srt"
                        [] format = "vtt" -> "text/vtt"
                        [] format = "txt" -> "text/plain"
                        [] format = "json" -> "application/json"
        /\ ext = CASE format = "srt" -> <<"s", "r", "t">>
                   [] format = "vtt" -> <<"v", "t", "t">>
                   [] format = "txt" -> <<"t", "x", "t">>
                   [] format = "json" -> <<"j", "s", "o", "n">>

\* C14 witness: the paragraph view without paragraphs exports the segments
\* as JSON
C14_ParagraphViewFallsBack ==
    /\ epc = "done"
    /\ viewMode = "para"
    /\ expParagraphs = <<>>
    /\ Len(expSegments) >= 2
    /\ format = "json"
    /\ delivered.body = segmentsToJSON(expSegments)
    /\ delivered.body # paragraphsToJSON(expParagraphs)
    /\ delivered.type = "application/json"

\* s.split("\n")
RECURSIVE SplitLines(_)
SplitLines(s) ==
    LET nls == {i \in 1..Len(s) : s[i] = "\n"} IN
    IF nls = {} THEN <<s>>
    ELSE LET i == CHOOSE i \in nls : \A j \in nls : i <= j
         IN <<SubSeq(s, 1, i - 1)>> \o SplitLines(SubSeq(s, i + 1, Len(s)))

\* the line begins with a bracketed name and a space
StartsWithBracket(line) ==
    \E sp \in ExportSpeakers :
        /\ Len(line) >= 4
        /\ SubSeq(line, 1, 4) = <<"[", sp, "]", " ">>

\* C15: the SRT output has exactly one block per input unit, in input
\* order, numbered 1..n without gap or repeat, consecutive blocks
\* separated by one blank line; the text line of a block starts with the
\* prefix "[speaker] " exactly when the unit has a speaker; the same in
\* segment view and in paragraph view.
C15_SrtBlocks ==
    (HasContent /\ format = "srt") =>
        LET n == Len(Units)
            lines == SplitLines(content)
        IN IF n = 0 THEN content = <<>>
           ELSE /\ Len(lines) = 4 * n
                /\ \A k \in 1..n :
                      /\ lines[4 * k - 3] = Digits(k)
                      /\ lines[4 * k - 2] =
                            ReplaceFirstDot(formatTimestamp(Units[k].start)) \o Arrow
                                \o ReplaceFirstDot(formatTimestamp(Units[k].end))
                      /\ lines[4 * k - 1] =
                            (IF Units[k].speaker # Undefined
                             THEN <<"[", Units[k].speaker, "]", " ">> ELSE <<>>)
                                \o Trim(Units[k].text)
                      /\ StartsWithBracket(lines[4 * k - 1]) <=> Units[k].speaker # Undefined
                      /\ lines[4 * k] = <<>>

\* C15 witness: a paragraph-view SRT export of three paragraphs, with and
\* without speaker
C15_ParagraphsWithAndWithoutSpeaker ==
    /\ epc = "done"
    /\ format = "srt"
    /\ ParagraphView
    /\ Len(expParagraphs) = 3
    /\ \E k \in 1..3 : expParagraphs[k].speaker = Undefined
    /\ \E k \in 1..3 : expParagraphs[k].speaker # Undefined
    /\ \E k \in 1..3 : expParagraphs[k].segment_count = 1
    /\ Len(SplitLines(delivered.body)) = 12

\* the speaker of the last segment up to k that has one, "" when none has
RECURSIVE LastSpoken(_, _)
LastSpoken(segs, k) ==
    IF k = 0 THEN ""
    ELSE IF segs[k].speaker # Undefined THEN segs[k].speaker
    ELSE LastSpoken(segs, k - 1)

\* a header line is due before segment k
HeaderDue(segs, k) ==
    segs[k].speaker # Undefined /\ segs[k].speaker # LastSpoken(segs, k - 1)

\* the text export written segment by segment, before the final trim
TxtExpected(segs) ==
    Concat([k \in 1..Len(segs) |->
        (IF HeaderDue(segs, k) THEN <<"\n", segs[k].speaker, ":", "\n">> ELSE <<>>)
            \o Trim(segs[k].text) \o <<" ">>])

\* the lines of the export that are a speaker header
HeaderLines(s) ==
    SelectSeq(SplitLines(s), LAMBDA line : \E sp \in ExportSpeakers : line = <<sp, ":">>)

\* C16: in the segment-view TXT export a speaker header line is emitted
\* before a segment exactly when the segment has a speaker that differs
\* from the speaker of the most recently emitted header (none at the
\* start); the number of header lines is the number of such changes, and a
\* segment without speaker emits no header and does not reset the
\* remembered speaker.
C16_TxtHeaderOnSpeakerChange ==
    (HasContent /\ format = "txt" /\ ~ParagraphView) =>
        /\ content = Trim(TxtExpected(expSegments))
        /\ HeaderLines(content) =
              LET due == SelectSeq([k \in 1..Len(expSegments) |-> k],
                                   LAMBDA k : HeaderDue(expSegments, k))
              IN [j \in 1..Len(due) |-> <<expSegments[due[j]].speaker, ":">>]

\* C16 witness: a speaker, a segment without speaker, the same speaker
\* again: one header only
C16_SpeakerResumesAfterUnattributedSegment ==
    /\ epc = "done"
    /\ format = "txt"
    /\ ~ParagraphView
    /\ Len(expSegments) = 3
    /\ expSegments[1].speaker = "A"
    /\ expSegments[2].speaker = Undefined
    /\ expSegments[3].speaker = "A"
    /\ Len(HeaderLines(delivered.body)) = 1

\* the body of an export without units
EmptyBody(fmt) ==
    CASE fmt = "srt" -> <<>>
      [] fmt = "vtt" -> <<"W", "E", "B", "V", "T", "T", "\n", "\n">>
      [] fmt = "txt" -> <<>>
      [] fmt = "json" -> <<"[", "]">>

\* C17: with an empty input list no component fails: detectParagraphsClient
\* of the empty list is the empty list for every threshold, and every
\* serializer (SRT, VTT, TXT, JSON, for segments and for paragraphs) given
\* the empty list returns its empty body: no block, no cue after the
\* WEBVTT header, no text, no element.
C17_EmptyInputEmptyOutput ==
    /\ \A t \in Thresholds : detectParagraphsClient(<<>>, t) = <<>>
    /\ paragraphsToSRT(<<>>) = EmptyBody("srt")
    /\ paragraphsToVTT(<<>>) = EmptyBody("vtt")
    /\ paragraphsToTXT(<<>>) = EmptyBody("txt")
    /\ paragraphsToJSON(<<>>) = EmptyBody("json")
    /\ (HasContent /\ Units = <<>>) =>
          /\ content = EmptyBody(format)
          /\ epc \in {"clicked", "done"} => delivered.body = EmptyBody(format)

\* C17 witness: a JSON export of no segments delivers "[]"
C17_EmptyJsonExport ==
    /\ epc = "done"
    /\ expSegments = <<>>
    /\ viewMode = "para"
    /\ format = "json"
    /\ delivered.body = <<"[", "]">>

\* the name up to its last dot, the whole name when it has no dot
BeforeLastDot(name) ==
    LET dots == {i \in 1..Len(name) : name[i] = "."} IN
    IF dots = {} THEN name
    ELSE SubSeq(name, 1, (CHOOSE i \in dots : \A j \in dots : j <= i) - 1)

\* C18: the download filename is the original filename with its final
\* extension (the last dot and everything after it), if any, removed,
\* followed by a dot and the extension of the format.
C18_FinalExtensionReplaced ==
    epc \in {"prepared", "clicked", "done", "failed"} =>
        anchor.download = BeforeLastDot(filename) \o <<".">> \o ext

\* C19: an execution of exportTranscript that has created the object URL
\* never ends, by returning or by an exception, with the URL unreleased.
C19_HandleReleasedOnEveryPath ==
    epc \in {"done", "failed"} => url # "live"

\* ========================================================================
\* Properties of the inline highlighter (checked under SpecRender)
\* ========================================================================
\* the text nodes of the rendered element in document order: [kind, text]
\* with kind "redaction", "plain" or "mark"
RECURSIVE Leaves(_)
Leaves(ss) ==
    IF ss = <<>> THEN <<>>
    ELSE (IF Head(ss).kind = "searched" THEN Head(ss).children
          ELSE <<[kind |-> Head(ss).kind, text |-> Head(ss).text]>>)
         \o Leaves(Tail(ss))

\* position in the rendered text of the first character of leaf k
RECURSIVE LeafStart(_, _)
LeafStart(ls, k) == IF k = 1 THEN 1 ELSE LeafStart(ls, k - 1) + Len(ls[k - 1].text)

\* where the redaction markers of a text begin (a marker holds no "[" but
\* its first character, so two markers never overlap)
MarkerStarts(s) == {p \in 1..Len(s) : RedactionEnd(s, p) # 0}

MarkerAt(s, p) == SubSeq(s, p, RedactionEnd(s, p) - 1)

\* C20: whatever the search query, renderText emits every redaction marker
\* of the text as exactly one redaction-styled span holding the whole
\* marker, emits no other redaction span, and no search-highlight span
\* holds any character of a marker.
C20_MarkersRenderedWhole ==
    vpc = "done" =>
        LET ls == Leaves(spans) IN
        /\ Concat([k \in 1..Len(ls) |-> ls[k].text]) = rtext
        /\ \A p \in MarkerStarts(rtext) :
               Cardinality({k \in 1..Len(ls) :
                               /\ ls[k].kind = "redaction"
                               /\ LeafStart(ls, k) = p
                               /\ ls[k].text = MarkerAt(rtext, p)}) = 1
        /\ Cardinality({k \in 1..Len(ls) : ls[k].kind = "redaction"})
               = Cardinality(MarkerStarts(rtext))
        /\ \A k \in 1..Len(ls) : \A p \in MarkerStarts(rtext) :
               ls[k].kind = "mark" =>
                   \/ LeafStart(ls, k) + Len(ls[k].text) <= p
                   \/ LeafStart(ls, k) >= RedactionEnd(rtext, p)

\* a query that matches inside the brackets of a marker has been used, and
\* it is highlighted elsewhere in the same text
C20_QueryMatchesInsideMarker ==
    /\ vpc = "done"
    /\ query.present
    /\ query.value # <<>>
    /\ \E p \in MarkerStarts(rtext) : \E q \in (p + 1)..(RedactionEnd(rtext, p) - 2) :
           MatchAt(rtext, SearchRegex(query.value), q)
    /\ \E k \in 1..Len(Leaves(spans)) : Leaves(spans)[k].kind = "mark"

\* C21: renderText of the empty string emits no span at all, with or
\* without a search query.
C21_EmptyTextNoSpans ==
    (vpc = "done" /\ rtext = <<>>) => spans = <<>>

\* ========================================================================
\* Further properties of the paragraph grouper (checked under SpecPara)
\* ========================================================================
\* index of the first segment of paragraph k: one more than the
\* segment_count sum of the paragraphs before it
FirstIndex(ps, k) == SumCounts(SubSeq(ps, 1, k - 1)) + 1

LastIndex(ps, k) == FirstIndex(ps, k) + ps[k].segment_count - 1

\* C22: the returned paragraphs are contiguous runs of the input in input
\* order: paragraph k covers the segments FirstIndex..LastIndex, has the
\* speaker and start of its first segment and the end of its last one, and
\* its text is the trimmed texts of its segments joined by single spaces.
C22_ParagraphsAreContiguousRuns ==
    ppc = "done" =>
        \A k \in 1..Len(paragraphs) :
            LET c == FirstIndex(paragraphs, k)
                l == LastIndex(paragraphs, k)
            IN /\ c <= l
               /\ l <= Len(segments)
               /\ paragraphs[k].speaker = segments[c].speaker
               /\ paragraphs[k].start = segments[c].start
               /\ paragraphs[k].end = segments[l].end
               /\ paragraphs[k].text =
                      JoinSpace([j \in 1..(l - c + 1) |-> Trim(segments[c + j - 1].text)])

\* C22 witness: a one-segment paragraph followed by a two-segment one whose
\* first text has spaces to trim
C22_SecondParagraphOfTwoPaddedTexts ==
    /\ ppc = "done"
    /\ Len(segments) = 3
    /\ Len(paragraphs) = 2
    /\ paragraphs[2].segment_count = 2
    /\ segments[2].text = <<" ", "a", " ">>
    /\ segments[3].text = <<"a">>
    /\ paragraphs[2].text = <<"a", " ", "a">>

\* the segments are ordered by start time and none ends before it starts
OrderedByStart(segs) ==
    /\ \A i \in 2..Len(segs) : segs[i - 1].start <= segs[i].start
    /\ \A i \in 1..Len(segs) : segs[i].start <= segs[i].end

\* C23: on an input ordered by start time whose segments all have
\* end >= start, every paragraph spans each of its member segments,
\* overlapping same-speaker segments included.
C23_ParagraphSpansItsMembers ==
    (ppc = "done" /\ OrderedByStart(segments)) =>
        \A k \in 1..Len(paragraphs) :
            \A i \in FirstIndex(paragraphs, k)..LastIndex(paragraphs, k) :
                /\ paragraphs[k].start <= segments[i].start
                /\ segments[i].end <= paragraphs[k].end

\* ========================================================================
\* Further properties of the rule engine (checked under SpecRules)
\* ========================================================================
\* the rule's own flags with the global modifier added when it is missing
OwnFlagsWithGlobal(rule) ==
    IF HasFlag(rule.flags, "g") THEN rule.flags ELSE <<"g">> \o rule.flags

\* the text after one rule compiled with exactly those flags
ReplacedWithOwnFlags(t, rule) ==
    LET re == NewRegExp(PatternSource(rule), OwnFlagsWithGlobal(rule)) IN
    IF re.threw THEN t ELSE ReplaceAllFrom(t, re, rule.replace, 1)

\* C24: a rule is compiled with its own flags plus the global modifier and
\* nothing else, so a rule with empty flags (or "g" alone) matches
\* case-sensitively.
C24_OwnFlagsPlusGlobalOnly ==
    (rpc = "done" /\ Len(rules) = 1 /\ rules[1].enabled /\ rules[1].find # <<>>)
        => result.value = Cleanup(ReplacedWithOwnFlags(text, rules[1]))

\* ========================================================================
\* Properties of re-grouping (checked under SpecRegroup)
\* ========================================================================
\* C25: with paragraph detection on, a second call that receives the
\* paragraphs of the first call as the previous paragraph set returns the
\* same paragraph list, entity_counts and sentiment included (after
\* FeedBack, rawParagraphs holds the paragraphs of the first call).
C25_RegroupingIsIdempotent ==
    qpc = "fed" => outParagraphs = rawParagraphs

\* ========================================================================
\* Further properties of the orchestrator (checked under SpecPost)
\* ========================================================================
\* C26: with detection on and rules active, the text of every returned
\* paragraph is the single-space join of the texts of its member segments
\* as returned by the same call (the rule-transformed segment texts).
C26_ParagraphTextJoinsReturnedSegments ==
    (Recomputed /\ options.textRulesEnabled /\ Len(ActiveRules(options)) > 0) =>
        \A k \in 1..Len(outParagraphs) :
            LET c == FirstIndex(outParagraphs, k)
                n == outParagraphs[k].segment_count
            IN outParagraphs[k].text =
                   JoinSpace([j \in 1..n |-> outSegments[c + j - 1].text])

\* the indices at which a paragraph of ps begins, the first one excluded
Boundaries(ps) == {i \in 2..SumCounts(ps) : StartsParagraph(ps, i)}

\* the break before segment i as a function of segments i-1 and i alone
BreaksBetween(before, seg, threshold) ==
    before.speaker # seg.speaker \/ seg.start - before.end > threshold

\* C27: grouping is monotone in the threshold: of two groupings of the same
\* segments, every boundary of the one with the larger threshold is a
\* boundary of the other, which has at least as many paragraphs; and the
\* break before segment i is decided by segments i-1 and i alone.
C27_MonotoneInThreshold ==
    ppc = "done" =>
        /\ \A i \in 2..Len(segments) :
               StartsParagraph(paragraphs, i)
                   <=> BreaksBetween(segments[i - 1], segments[i], silenceThreshold)
        /\ (prevThreshold # NoThreshold /\ prevThreshold <= silenceThreshold) =>
               /\ Boundaries(paragraphs) \subseteq Boundaries(prevParagraphs)
               /\ Len(paragraphs) <= Len(prevParagraphs)
        /\ (prevThreshold # NoThreshold /\ silenceThreshold <= prevThreshold) =>
               /\ Boundaries(prevParagraphs) \subseteq Boundaries(paragraphs)
               /\ Len(prevParagraphs) <= Len(paragraphs)

\* C27 witness: the threshold was raised and two paragraphs of the earlier
\* grouping became one, while a speaker boundary stayed
C27_RaisedThresholdMergesParagraphs ==
    /\ ppc = "done"
    /\ prevThreshold # NoThreshold
    /\ prevThreshold < silenceThreshold
    /\ Len(prevParagraphs) = 3
    /\ Len(paragraphs) = 2
    /\ Boundaries(paragraphs) # {}

\* the text a top-level span shows
SpanText(span) ==
    IF span.kind = "searched"
    THEN Concat([j \in 1..Len(span.children) |-> span.children[j].text])
    ELSE span.text

\* C28: renderText never transforms the text: whatever the query (absent,
\* empty or not), the texts of the emitted spans, concatenated in order,
\* are the input text.
C28_SpansConcatenateToInput ==
    vpc = "done" => Concat([k \in 1..Len(spans) |-> SpanText(spans[k])]) = rtext

\* C28 witness: a text rendered with a query into plain, highlighted and
\* redaction spans
C28_MixedSpans ==
    /\ vpc = "done"
    /\ query.present /\ query.value # <<>>
    /\ Len(rtext) >= 5
    /\ \E k \in 1..Len(spans) : spans[k].kind = "redaction"
    /\ \E k \in 1..Len(spans) : spans[k].kind = "searched" /\ Len(spans[k].children) >= 3

\* a fresh matcher (lastIndex 0) finds its pattern in the chunk
IsMarkerChunk(chunk) == TestGlobal(chunk, RedactionEnds(chunk), 0).found

IsSearchMatchChunk(chunk, regex) == TestGlobal(chunk, SearchEnds(chunk, regex), 0).found

\* lastIndex of a global pattern just before chunk i of chunks is tested,
\* the chunks before it having been tested in order from lastIndex entry;
\* ends gives the match ends of the pattern in a chunk
RECURSIVE IndexBefore(_, _, _, _)
IndexBefore(chunks, ends(_), i, entry) ==
    IF i = 1 THEN entry
    ELSE TestGlobal(chunks[i - 1], ends(chunks[i - 1]),
                    IndexBefore(chunks, ends, i - 1, entry)).lastIndex
\* the chunks handed to searchRegex.test during a call, in order
SearchChunks(ss) == Leaves(SelectSeq(ss, LAMBDA sp : sp.kind = "searched"))

\* C29: the pattern objects remember a position, yet every chunk is
\* classified by its own text alone: REDACTION_PATTERN.lastIndex is 0
\* between calls, it is 0 whenever a marker chunk is tested and the search
\* pattern's is 0 whenever a search-match chunk is tested, so a chunk is
\* styled as a marker (as a match) exactly when a fresh matcher finds the
\* pattern in it.
C29_ClassificationByChunkTextAlone ==
    /\ redactionLastIndex = 0
    /\ vpc = "done" =>
        LET parts == StringSplit(rtext, RedactionEnds(rtext))
            regex == SearchRegex(query.value)
            chunks == SearchChunks(spans)
            texts == [j \in 1..Len(chunks) |-> chunks[j].text]
        IN /\ Len(spans) = Len(parts)
           /\ \A i \in 1..Len(parts) :
                  /\ spans[i].kind = "redaction" <=> IsMarkerChunk(parts[i])
                  /\ IsMarkerChunk(parts[i])
                         => IndexBefore(parts, RedactionEnds, i, 0) = 0
           /\ \A j \in 1..Len(chunks) :
                  /\ chunks[j].kind = "mark" <=> IsSearchMatchChunk(texts[j], regex)
                  /\ IsSearchMatchChunk(texts[j], regex)
                         => IndexBefore(texts, LAMBDA c : SearchEnds(c, regex), j, 0) = 0

\* C29 witness: two markers and a search match were tested in one call
C29_TwoMarkersAndAMatch ==
    /\ vpc = "done"
    /\ Cardinality({k \in 1..Len(spans) : spans[k].kind = "redaction"}) = 2
    /\ \E j \in 1..Len(SearchChunks(spans)) : SearchChunks(spans)[j].kind = "mark"

\* ========================================================================
\* Properties of the two views (checked under SpecViews)
\* ========================================================================
\* the chunks a reader sees: the non-empty text nodes in order, each with
\* its style ("redaction", "mark" or "plain"; a bare text node is plain)
VisibleChunks(ls) ==
    LET shown == SelectSeq(ls, LAMBDA l : l.text # <<>>) IN
    [k \in 1..Len(shown) |->
        [kind |-> IF shown[k].kind = "text" THEN "plain" ELSE shown[k].kind,
         text |-> shown[k].text]]

\* C30: for the same text and query the paragraph view's highlightText
\* yields the chunks of renderText, boundaries and styles alike, so a
\* redaction marker is one redaction chunk in the paragraph view too.
C30_ParagraphViewAgreesWithRenderText ==
    (vpc = "done" /\ hpc = "done") =>
        VisibleChunks(hspans) = VisibleChunks(Leaves(spans))

====
